---- MODULE Spec2Model ----
(***************************************************************************)
(* Model of PyGMO.util._analysis.analysis: the sampler, the Richardson     *)
(* differentiation engine and the operations built on the sample.          *)
(* Real numbers are exact rationals <<numerator, denominator>> in lowest   *)
(* terms with a positive denominator; vectors are sequences of rationals.  *)
(* Python's 0-based indices are kept as stored values (grad_points, ...);  *)
(* a sequence position is the index plus one.                              *)
(***************************************************************************)
EXTENDS Integers, Sequences, FiniteSets, TLC

\* ------------------------------------------------------------------ bounds
MaxNPoints == 2
MaxFirst == 1
MaxSampleSize == 2
MaxTmax == 3
MaxPairs == 2
MaxCalls == 2
MaxIslands == 3

\* ------------------------------------------------------- exact arithmetic
AbsInt(a) == IF a < 0 THEN -a ELSE a

RECURSIVE GCD(_, _)
GCD(a, b) == IF b = 0 THEN a ELSE GCD(b, a % b)

Q(n, d) ==
    LET s == IF d < 0 THEN -1 ELSE 1
        g == GCD(AbsInt(n), AbsInt(d))
    IN  <<(s * n) \div g, (s * d) \div g>>

I(n) == <<n, 1>>
Zero == <<0, 1>>
One == <<1, 1>>
Half == <<1, 2>>

\* sums and products cancel common factors first, to keep the numbers small
RAdd(a, b) ==
    CHOOSE r \in {LET g == GCD(u[2], v[2])
                  IN  Q(u[1] * (v[2] \div g) + v[1] * (u[2] \div g),
                        (u[2] \div g) * v[2]) : u \in {a}, v \in {b}} : TRUE
RNeg(a) == <<-a[1], a[2]>>
RSub(a, b) == RAdd(a, RNeg(b))
RMul(a, b) ==
    CHOOSE r \in {LET g1 == GCD(AbsInt(u[1]), v[2])
                      g2 == GCD(AbsInt(v[1]), u[2])
                  IN  Q((u[1] \div g1) * (v[1] \div g2),
                        (u[2] \div g2) * (v[2] \div g1)) : u \in {a}, v \in {b}} : TRUE
RDiv(a, b) == RMul(a, Q(b[2], b[1]))
RAbs(a) == <<AbsInt(a[1]), a[2]>>
RLt(a, b) == RSub(a, b)[1] < 0
RLe(a, b) == RSub(a, b)[1] <= 0
RMax(a, b) == IF RLt(a, b) THEN b ELSE a
IsInteger(a) == a[2] = 1

RECURSIVE Pow(_, _)
Pow(b, e) == IF e = 0 THEN 1 ELSE b * Pow(b, e - 1)

\* round(r, 0) of Python 2: to the nearest integer, halves away from zero
Round0(a) ==
    IF a[1] >= 0 THEN I((2 * a[1] + a[2]) \div (2 * a[2]))
    ELSE I(-((2 * (-a[1]) + a[2]) \div (2 * a[2])))

\* sequence helpers.  Tup(s) is s itself, held as an explicit tuple.
\* Throughout, CHOOSE r \in {e(v) : v \in {d}} : TRUE is e(d) with d
\* evaluated once.
Tup(s) == s \o <<>>
RECURSIVE SumSeq(_)
SumSeq(s) == IF s = <<>> THEN Zero ELSE RAdd(Head(s), SumSeq(Tail(s)))

Range0(n) == Tup([i \in 1..n |-> i - 1])

\* ------------------------------------------------------------ the problem
\* prob.dimension, prob.i_dimension, prob.f_dimension, prob.lb, prob.ub and
\* prob.objfun of the problem object handed to the constructor.  The model
\* draws the problem from a few polynomial problems.
Problems == {"mixed", "lin", "intp"}
RichProblems == {"quad", "cubic", "mixed", "intp"}

Dimension(p) == CASE p \in {"intp", "wells"} -> 1 [] p = "cubic" -> 3 [] OTHER -> 2
IDimension(p) == IF p \in {"lin", "quad", "tri", "wells"} THEN 0 ELSE 1
FDimension(p) == CASE p \in {"mixed", "cubic"} -> 2 [] p = "tri" -> 3 [] OTHER -> 1
ProbLb(p) ==
    CASE p = "mixed" -> <<I(-1), I(0)>>
      [] p = "lin" -> <<I(0), I(0)>>
      [] p = "intp" -> <<I(0)>>
      [] p = "quad" -> <<I(-2), I(0)>>
      [] p = "cubic" -> <<I(-1), I(-1), I(0)>>
      [] p = "tri" -> <<I(0), I(0)>>
      [] p = "wells" -> <<I(0)>>
ProbUb(p) ==
    CASE p = "mixed" -> <<I(1), I(3)>>
      [] p = "lin" -> <<I(2), I(2)>>
      [] p = "intp" -> <<I(2)>>
      [] p = "quad" -> <<I(2), I(4)>>
      [] p = "cubic" -> <<I(1), I(1), I(2)>>
      [] p = "tri" -> <<I(1), I(1)>>
      [] p = "wells" -> <<I(2)>>

\* mixed: f = (x1^2 + x2, x2), x2 integer;  lin: f = 2*x1 + x2;
\* intp: f = x1^2, x1 integer;  quad: f = x1^2 + 3*x2;
\* cubic: f = (x1^3 + x1*x2 + x3, x1^4 + x1*x2^2), x3 integer;
\* tri: f = (x1, x2, x1 + x2);
\* wells: f = min(x1^2, 4*(x1-1)^2 + 1/2, (x1-2)^2 + 1), with the local
\* minima 0, 1/2 and 1 at x1 = 0, 1 and 2
ObjFun(p, x) ==
    CASE p = "mixed" -> <<RAdd(RMul(x[1], x[1]), x[2]), x[2]>>
      [] p = "lin" -> <<RAdd(RMul(I(2), x[1]), x[2])>>
      [] p = "intp" -> <<RMul(x[1], x[1])>>
      [] p = "quad" -> <<RAdd(RMul(x[1], x[1]), RMul(I(3), x[2]))>>
      [] p = "cubic" ->
            <<RAdd(RAdd(RMul(x[1], RMul(x[1], x[1])), RMul(x[1], x[2])), x[3]),
              RAdd(RMul(RMul(x[1], x[1]), RMul(x[1], x[1])),
                   RMul(x[1], RMul(x[2], x[2])))>>
      [] p = "tri" -> <<x[1], x[2], RAdd(x[1], x[2])>>
      [] p = "wells" ->
            LET w == {RMul(x[1], x[1]),
                      RAdd(RMul(I(4), RMul(RSub(x[1], One), RSub(x[1], One))), Half),
                      RAdd(RMul(RSub(x[1], I(2)), RSub(x[1], I(2))), One)}
            IN  <<CHOOSE m \in w : \A v \in w : RLe(m, v)>>

\* -------------------------------------------- Richardson extrapolation
\* A tensor is a sequence of f_dim rows; a buffer d[0] or d[1] is a sequence
\* of tensors.  Position k+1 of a buffer is Python's slot k.
ZeroT(fd, nc) == Tup([j \in 1..fd |-> Tup([i \in 1..nc |-> Zero])])
TSub(A, B) == Tup([j \in DOMAIN A |-> Tup([i \in DOMAIN A[j] |-> RSub(A[j][i], B[j][i])])])
TAdd(A, B) == Tup([j \in DOMAIN A |-> Tup([i \in DOMAIN A[j] |-> RAdd(A[j][i], B[j][i])])])
TDivInt(A, n) == Tup([j \in DOMAIN A |-> Tup([i \in DOMAIN A[j] |-> RDiv(A[j][i], I(n))])])
TEntries(A) == {RAbs(A[j][i]) : j \in DOMAIN A, i \in 1..Len(A[1])}
TIsEmpty(A) == A = <<>> \/ Len(A[1]) = 0
\* amax(abs(A)); numpy raises ValueError on an empty array
TMaxAbs(A) == CHOOSE m \in TEntries(A) : \A s \in TEntries(A) : RLe(s, m)

\* xu=list(x); xu[i]+=hh : a perturbed copy of x (i is the 0-based index)
Perturb(x, i, delta) == [x EXCEPT ![i + 1] = RAdd(x[i + 1], delta)]

\* The caller's list x after one pass over the coordinates: xu and xd are
\* copies (list(x)), so the perturbations never reach x itself.
\* XAfterPerturbAliased is what xu=x in place of xu=list(x) would leave.
XAfterPerturbAliased(x, hh, cd) ==
    Tup([i \in DOMAIN x |-> IF i <= cd THEN RAdd(x[i], hh) ELSE x[i]])
XAfterPerturb(x, hh, cd) == x

ContDim(p) == Dimension(p) - IDimension(p)

\* central difference, one column per continuous coordinate
\* (GradFDHalved: the same divided by hh in place of 2*hh)
GradFDHalved(p, x, hh) ==
    Tup([j \in 1..FDimension(p) |-> Tup([i \in 1..ContDim(p) |->
        RDiv(RSub(ObjFun(p, Perturb(x, i - 1, hh))[j],
                  ObjFun(p, Perturb(x, i - 1, RNeg(hh)))[j]), hh)])])
GradFD(p, x, hh) ==
    Tup([j \in 1..FDimension(p) |-> Tup([i \in 1..ContDim(p) |->
        RDiv(RSub(ObjFun(p, Perturb(x, i - 1, hh))[j],
                  ObjFun(p, Perturb(x, i - 1, RNeg(hh)))[j]),
             RMul(I(2), hh))])])
GradEvalPoints(p, x, hh) ==
    UNION {{Perturb(x, i - 1, hh), Perturb(x, i - 1, RNeg(hh))} : i \in 1..ContDim(p)}

\* ind=list(combinations_with_replacement(range(cont_dim),2)): the pairs
\* (a,b), a <= b, in lexicographic order
IndPos(a, b, cd) == a * cd - ((a * (a - 1)) \div 2) + (b - a) + 1
IndPairs(cd) == {pr \in (0..(cd - 1)) \X (0..(cd - 1)) : pr[1] <= pr[2]}
Ind(cd) ==
    Tup([n \in 1..((cd * (cd + 1)) \div 2) |->
        CHOOSE pr \in IndPairs(cd) : IndPos(pr[1], pr[2], cd) = n])

\* one entry of the second-difference tensor for the index pair pr
HessStencil(p, x, hh, pr, j) ==
    IF pr[1] = pr[2]
    THEN RDiv(RAdd(RSub(ObjFun(p, Perturb(x, pr[1], hh))[j],
                        RMul(I(2), ObjFun(p, x)[j])),
                   ObjFun(p, Perturb(x, pr[1], RNeg(hh)))[j]),
              RMul(hh, hh))
    ELSE RDiv(RAdd(RSub(RSub(
                ObjFun(p, Perturb(Perturb(x, pr[1], hh), pr[2], hh))[j],
                ObjFun(p, Perturb(Perturb(x, pr[1], hh), pr[2], RNeg(hh)))[j]),
                ObjFun(p, Perturb(Perturb(x, pr[1], RNeg(hh)), pr[2], hh))[j]),
                ObjFun(p, Perturb(Perturb(x, pr[1], RNeg(hh)), pr[2], RNeg(hh)))[j]),
              RMul(I(4), RMul(hh, hh)))
HessFD(p, x, hh) ==
    Tup([j \in 1..FDimension(p) |-> Tup([n \in 1..Len(Ind(ContDim(p))) |->
        HessStencil(p, x, hh, Ind(ContDim(p))[n], j)])])
HessEvalPoints(p, x, hh) ==
    UNION {IF pr[1] = pr[2]
           THEN {Perturb(x, pr[1], hh), x, Perturb(x, pr[1], RNeg(hh))}
           ELSE {Perturb(Perturb(x, pr[1], hh), pr[2], hh),
                 Perturb(Perturb(x, pr[1], hh), pr[2], RNeg(hh)),
                 Perturb(Perturb(x, pr[1], RNeg(hh)), pr[2], hh),
                 Perturb(Perturb(x, pr[1], RNeg(hh)), pr[2], RNeg(hh))}
           : pr \in IndPairs(ContDim(p))}

NCols(p, order) == IF order = 1 THEN ContDim(p) ELSE Len(Ind(ContDim(p)))
FDTensor(p, x, hh, order) == IF order = 1 THEN GradFD(p, x, hh) ELSE HessFD(p, x, hh)

\* d=[[zeros],[]]; hh=2*h; err=1; t=0
RichInit(p, x, h, order) ==
    [d |-> <<(<<ZeroT(FDimension(p), NCols(p, order))>>), <<>>>>,
     hh |-> RMul(I(2), h), err |-> One, t |-> 0, exc |-> "none", x |-> x]

\* while (err>tol and t<tmax)
RichCond(L, tol, tmax) == L.exc = "none" /\ RLt(tol, L.err) /\ L.t < tmax

\* for k in range(1,t+1): d[t%2][k]=d[t%2][k-1]+(d[t%2][k-1]-d[(t+1)%2][k-1])/(4**k-1)
\* (ExtrapolateInPlace: the iteration before read from the buffer being
\* written)
RECURSIVE ExtrapolateInPlace(_, _, _, _)
ExtrapolateInPlace(cur, oth, k, t) ==
    IF k > t THEN cur
    ELSE CHOOSE r \in {ExtrapolateInPlace(nxt, oth, k + 1, t) : nxt \in
            {[cur EXCEPT ![k + 1] =
                TAdd(cur[k], TDivInt(TSub(cur[k], cur[k + 1]), Pow(4, k) - 1))]}} : TRUE
RECURSIVE Extrapolate(_, _, _, _)
Extrapolate(cur, oth, k, t) ==
    IF k > t THEN cur
    ELSE CHOOSE r \in {Extrapolate(nxt, oth, k + 1, t) : nxt \in
            {[cur EXCEPT ![k + 1] =
                TAdd(cur[k], TDivInt(TSub(cur[k], oth[k]), Pow(4, k) - 1))]}} : TRUE

\* one pass of the while loop
RichStep(p, L, order) ==
    LET hh == RDiv(L.hh, I(2))
        cur == (L.t % 2) + 1
        oth == ((L.t + 1) % 2) + 1
        zt == ZeroT(FDimension(p), NCols(p, order))
        slots == Len(L.d[cur]) >= L.t + 1 /\ Len(L.d[oth]) >= L.t
        xa == XAfterPerturb(L.x, hh, ContDim(p))
    IN  IF ~slots
        THEN [L EXCEPT !.hh = hh, !.exc = "IndexError", !.x = xa]
        ELSE CHOOSE r \in {
            IF L.t > 0 /\ TIsEmpty(bk[L.t + 1])
            THEN [L EXCEPT !.hh = hh, !.exc = "ValueError", !.x = xa,
                           !.d = Tup([n \in 1..2 |-> IF n = cur THEN bk ELSE L.d[oth]])]
            ELSE [d |-> Tup([n \in 1..2 |->
                             IF n = cur THEN bk ELSE L.d[oth] \o <<zt, zt>>]),
                  hh |-> hh,
                  err |-> IF L.t > 0
                          THEN TMaxAbs(TSub(bk[L.t + 1], L.d[oth][L.t]))
                          ELSE L.err,
                  t |-> L.t + 1, exc |-> "none", x |-> xa]
            : bk \in {Extrapolate([L.d[cur] EXCEPT ![1] = FDTensor(p, L.x, hh, order)],
                                  L.d[oth], 1, L.t)}} : TRUE

RECURSIVE RichLoop(_, _, _, _, _)
RichLoop(p, L, tol, tmax, order) ==
    IF RichCond(L, tol, tmax)
    THEN CHOOSE r \in {RichLoop(p, L2, tol, tmax, order) :
                       L2 \in {RichStep(p, L, order)}} : TRUE
    ELSE L

\* return d[(t+1)%2][t-1]: slot -1 of the empty d[1] when the loop never ran
RichReturn(L) ==
    LET b == L.d[((L.t + 1) % 2) + 1]
    IN  IF L.exc # "none" THEN [exc |-> L.exc, val |-> <<>>, x |-> L.x]
        ELSE IF L.t = 0
        THEN IF b = <<>> THEN [exc |-> "IndexError", val |-> <<>>, x |-> L.x]
             ELSE [exc |-> "none", val |-> b[Len(b)], x |-> L.x]
        ELSE IF L.t > Len(b) THEN [exc |-> "IndexError", val |-> <<>>, x |-> L.x]
        ELSE [exc |-> "none", val |-> b[L.t], x |-> L.x]

\* mat[ind[j][0]][ind[j][1]]=v; mat[ind[j][1]][ind[j][0]]=v, per objective
\* (HessianMatUpperOnly: the first assignment alone)
HessianMatUpperOnly(row, cd) ==
    Tup([a \in 1..cd |-> Tup([b \in 1..cd |->
        IF a <= b THEN row[IndPos(a - 1, b - 1, cd)] ELSE Zero])])
HessianMat(row, cd) ==
    Tup([a \in 1..cd |-> Tup([b \in 1..cd |->
        IF a <= b THEN row[IndPos(a - 1, b - 1, cd)]
        ELSE row[IndPos(b - 1, a - 1, cd)]])])

\* hessian=[]; for i in range(f_dim): mat=zeros(...); for j in range(n_ind): ...
\* with no index pair the assembly loop never reads d
HessianReturn(p, L) ==
    IF L.exc # "none" THEN [exc |-> L.exc, val |-> <<>>, x |-> L.x]
    ELSE IF NCols(p, 2) = 0
    THEN [exc |-> "none", val |-> Tup([j \in 1..FDimension(p) |-> <<>>]), x |-> L.x]
    ELSE CHOOSE res \in {
            IF r.exc # "none" THEN r
            ELSE [r EXCEPT !.val = Tup([j \in 1..FDimension(p) |->
                                        HessianMat(r.val[j], ContDim(p))])]
            : r \in {RichReturn(L)}} : TRUE

TmaxDefault == 15

\* _richardson_gradient(x,h,grad_tol,tmax): the Jacobian [f_dim][cont_dim]
RichardsonGradient(p, x, h, tol, tmax) ==
    CHOOSE r \in {RichReturn(L) : L \in
                    {RichLoop(p, L0, tol, tmax, 1) : L0 \in {RichInit(p, x, h, 1)}}} : TRUE

\* _richardson_hessian(x,h,hess_tol,tmax): [f_dim][cont_dim][cont_dim]
RichardsonHessian(p, x, h, tol, tmax) ==
    CHOOSE res \in {HessianReturn(p, L) : L \in
                    {RichLoop(p, L0, tol, tmax, 2) : L0 \in {RichInit(p, x, h, 2)}}} : TRUE

\* ---------------------------------------------------------- the sampler
Unset == <<>>

\* util.sobol(dim,first): point n of the Sobol sequence (Gray-code order),
\* coordinates 1 and 2; the third coordinate repeats the first.
SobolTable ==
    <<(<<Q(0, 1), Q(0, 1)>>), (<<Q(1, 2), Q(1, 2)>>), (<<Q(3, 4), Q(1, 4)>>),
      (<<Q(1, 4), Q(3, 4)>>), (<<Q(3, 8), Q(3, 8)>>), (<<Q(7, 8), Q(7, 8)>>),
      (<<Q(5, 8), Q(1, 8)>>), (<<Q(1, 8), Q(5, 8)>>)>>
\* (SobolNextSkipping: the sequence entered one point late)
SobolNextSkipping(dim, n) ==
    Tup([j \in 1..dim |-> SobolTable[((n + 1) % 8) + 1][((j - 1) % 2) + 1]])
SobolNext(dim, n) ==
    Tup([j \in 1..dim |-> SobolTable[(n % 8) + 1][((j - 1) % 2) + 1]])

\* util.lhs(dim,npoints): point i (0-based) of a latin hypercube sample, the
\* centre of one stratum per coordinate, odd coordinates ascending and even
\* coordinates descending.
LhsNext(dim, n, i) ==
    Tup([j \in 1..dim |->
        IF j % 2 = 1 THEN Q(2 * i + 1, 2 * n) ELSE Q(2 * (n - 1 - i) + 1, 2 * n)])

\* temp[j]=temp[j]*self.ub[j]+(1-temp[j])*self.lb[j]
\* (ResizeReversed: the interpolation with lb and ub exchanged)
ResizeReversed(u, lbj, ubj) == RAdd(RMul(u, lbj), RMul(RSub(One, u), ubj))
Resize(u, lbj, ubj) == RAdd(RMul(u, ubj), RMul(RSub(One, u), lbj))

\* if j>=self.cont_dim: temp[j]=round(temp[j],0)   (j is the 0-based index)
\* (RoundIfIntNever: the mapping without the rounding)
RoundIfIntNever(v, j, cd) == v
RoundIfInt(v, j, cd) == IF j >= cd THEN Round0(v) ELSE v

ResizePoint(p, u) ==
    Tup([j \in 1..Dimension(p) |->
        RoundIfInt(Resize(u[j], ProbLb(p)[j], ProbUb(p)[j]), j - 1, ContDim(p))])

\* r=idx.pop(randint(i)) for i = poplength, poplength-1, ...: rs[k] is the
\* k-th draw; the result lists the drawn population positions (0-based).
RemoveAt(s, n) == [i \in 1..(Len(s) - 1) |-> IF i < n THEN s[i] ELSE s[i + 1]]
\* (PopDrawKeeping: the drawn position left in idx)
RECURSIVE PopDrawKeeping(_, _, _)
PopDrawKeeping(idx, rs, k) ==
    IF k > Len(rs) THEN <<>>
    ELSE <<idx[rs[k] + 1]>> \o PopDrawKeeping(idx, rs, k + 1)
RECURSIVE PopDraw(_, _, _)
PopDraw(idx, rs, k) ==
    IF k > Len(rs) THEN <<>>
    ELSE <<idx[rs[k] + 1]>> \o PopDraw(RemoveAt(idx, rs[k] + 1), rs, k + 1)

\* if self.npoints <= 0: raise ValueError
\* (NoPointsRequestedStrict: the test with < in place of <=)
NoPointsRequestedStrict(n) == n < 0
NoPointsRequested(n) == n <= 0

\* sample(npoints, method, first): every attribute it assigns, and the
\* exception it ends with ("none" when it returns).  us are the uniform
\* draws of 'montecarlo', rs the randint draws of a partial 'pop' sample.
SampleResult(p, population, n, method, first, us, rs) ==
    LET base == [npoints |-> n, points |-> <<>>, f |-> <<>>,
                 lb |-> ProbLb(p), ub |-> ProbUb(p),
                 dim |-> Dimension(p), cont_dim |-> ContDim(p),
                 int_dim |-> IDimension(p), f_dim |-> FDimension(p),
                 exc |-> "none", msg |-> "", unit |-> <<>>]
        fail(m) == [base EXCEPT !.exc = "ValueError", !.msg = m]
        poplength == Len(population)
        take == IF poplength = n THEN Range0(poplength)
                ELSE PopDraw(Range0(poplength), rs, 1)
        unitOf(i) == CASE method = "montecarlo" -> us[i]
                       [] method = "sobol" -> SobolNext(Dimension(p), first + i - 1)
                       [] OTHER -> LhsNext(Dimension(p), n, i - 1)
        pts == Tup([i \in 1..n |-> ResizePoint(p, unitOf(i))])
    IN  IF NoPointsRequested(n) THEN fail("at least one point needs to be sampled")
        ELSE IF method = "pop"
        THEN IF poplength = 0 THEN fail("population object inexistant or void")
             ELSE IF poplength < n
             THEN fail("not possible to sample more points than there are in the population")
             ELSE [base EXCEPT
                    !.points = [i \in 1..n |-> population[take[i] + 1].cur_x],
                    !.f = [i \in 1..n |-> population[take[i] + 1].cur_f]]
        ELSE IF method \in {"montecarlo", "sobol", "lhs"}
        THEN [base EXCEPT !.points = pts,
                          !.f = [i \in 1..n |-> ObjFun(p, pts[i])],
                          !.unit = [i \in 1..n |-> unitOf(i)]]
        ELSE fail("method specified is not valid")

\* ------------------------------------------------ operations on a sample
\* mean(self.f,0): the mean of each objective over the sample
Mean0(fs, fd) ==
    [j \in 1..fd |-> RDiv(SumSeq([i \in 1..Len(fs) |-> fs[i][j]]), I(Len(fs)))]

\* sample_size<=0 or sample_size>=self.npoints: every index, in order;
\* otherwise sample_size draws idx of randint(self.npoints)
SelectPoints(n, sample_size, idx) ==
    IF sample_size <= 0 \/ sample_size >= n THEN Range0(n) ELSE idx
SelectCount(n, sample_size) ==
    IF sample_size <= 0 \/ sample_size >= n THEN n ELSE sample_size

\* for i in self.grad_points: self.grad.append(self._richardson_...(x=self.points[i],...))
\* from position k on: the tensors appended, the exception that ended the
\* loop, and the sample's points as the calls leave them.
RECURSIVE DerivLoop(_, _, _, _, _, _, _)
DerivLoop(p, pts, gp, k, h, tol, order) ==
    IF k > Len(gp) THEN [vals |-> <<>>, exc |-> "none", pts |-> pts]
    ELSE IF gp[k] + 1 > Len(pts) THEN [vals |-> <<>>, exc |-> "IndexError", pts |-> pts]
    ELSE CHOOSE res \in {
            IF r.exc # "none"
            THEN [vals |-> <<>>, exc |-> r.exc, pts |-> [pts EXCEPT ![gp[k] + 1] = r.x]]
            ELSE CHOOSE out \in {[rest EXCEPT !.vals = <<r.val>> \o rest.vals] :
                    rest \in {DerivLoop(p, pts2, gp, k + 1, h, tol, order) :
                              pts2 \in {[pts EXCEPT ![gp[k] + 1] = r.x]}}} : TRUE
            : r \in {IF order = 1
                     THEN RichardsonGradient(p, pts[gp[k] + 1], h, tol, TmaxDefault)
                     ELSE RichardsonHessian(p, pts[gp[k] + 1], h, tol, TmaxDefault)}} : TRUE

\* nanmean(abs(asarray(self.grad)),0): entry [j][i]
\* (AbsOfAverage: abs and nanmean in the other order)
AbsOfAverage(g, j, i) ==
    RAbs(RDiv(SumSeq([k \in 1..Len(g) |-> g[k][j][i]]), I(Len(g))))
AverageAbs(g, j, i) ==
    RDiv(SumSeq([k \in 1..Len(g) |-> RAbs(g[k][j][i])]), I(Len(g)))

AverageAbsGradient(g, fd, cd) ==
    Tup([j \in 1..fd |-> Tup([i \in 1..cd |-> AverageAbs(g, j, i)])])

\* the count of entries with abs(average_abs_gradient[i][j])<=zero_tol
ZeroEntries(avg, fd, cd, zero_tol) ==
    Cardinality({e \in (1..fd) \X (1..cd) : RLe(RAbs(avg[e[1]][e[2]]), zero_tol)})

\* _get_gradient past its guard: the attributes it leaves behind
GradientResult(p, pts, n, sample_size, idx, h, tol, zero_tol, oldavg) ==
    LET gp == SelectPoints(n, sample_size, idx)
        fd == FDimension(p)
        cd == ContDim(p)
    IN  CHOOSE res \in {
        LET base == [grad_points |-> gp, grad_npoints |-> SelectCount(n, sample_size),
                     grad |-> lp.vals, grad_sparsity |-> Zero,
                     average_abs_gradient |-> oldavg, exc |-> lp.exc, points |-> lp.pts]
        IN  IF lp.exc # "none" THEN base
            ELSE IF lp.vals = <<>>
            THEN \* nanmean of an empty array is the scalar nan: indexing it fails
                 [base EXCEPT !.average_abs_gradient = <<>>, !.exc = "IndexError"]
            ELSE CHOOSE out \in {
                IF cd * fd = 0
                THEN [base EXCEPT !.average_abs_gradient = avg,
                                  !.exc = "ZeroDivisionError"]
                ELSE [base EXCEPT !.average_abs_gradient = avg,
                                  !.grad_sparsity =
                                      Q(ZeroEntries(avg, fd, cd, zero_tol), cd * fd)]
                : avg \in {AverageAbsGradient(lp.vals, fd, cd)}} : TRUE
        : lp \in {DerivLoop(p, pts, gp, 1, h, tol, 1)}} : TRUE

\* _get_hessian past its guard
HessianResult(p, pts, n, sample_size, idx, h, tol) ==
    LET hp == SelectPoints(n, sample_size, idx)
    IN  CHOOSE res \in {
            [hess_points |-> hp, hess_npoints |-> SelectCount(n, sample_size),
             hess |-> lp.vals, exc |-> lp.exc, points |-> lp.pts]
            : lp \in {DerivLoop(p, pts, hp, 1, h, tol, 2)}} : TRUE

\* one trial of _p_lin_conv: delta=f_lin-f_real for the pair (i1,i2), weight r
Combine(r, a, b) ==
    Tup([j \in DOMAIN a |-> RAdd(RMul(r, a[j]), RMul(RSub(One, r), b[j]))])
\* f_lin=r*array(self.f[i1])+(1-r)*array(...)
\* (FLinSwapped: the weights r and 1-r exchanged)
FLinSwapped(p, pts, fs, i1, i2, r) ==
    LET cd == ContDim(p)
        x1 == pts[i1 + 1]
        x2 == pts[i2 + 1]
        mix == Tup([j \in DOMAIN x1 |-> IF j <= cd THEN x2[j] ELSE x1[j]])
    IN  IF cd # Dimension(p)
        THEN Combine(RSub(One, r), fs[i1 + 1], ObjFun(p, mix))
        ELSE Combine(RSub(One, r), fs[i1 + 1], fs[i2 + 1])
FLin(p, pts, fs, i1, i2, r) ==
    LET cd == ContDim(p)
        x1 == pts[i1 + 1]
        x2 == pts[i2 + 1]
        mix == Tup([j \in DOMAIN x1 |-> IF j <= cd THEN x2[j] ELSE x1[j]])
    IN  IF cd # Dimension(p)
        THEN Combine(r, fs[i1 + 1], ObjFun(p, mix))
        ELSE Combine(r, fs[i1 + 1], fs[i2 + 1])
TrialDelta(p, pts, fs, i1, i2, r) ==
    LET cd == ContDim(p)
        x1 == pts[i1 + 1]
        x2 == pts[i2 + 1]
        xc == Combine(r, x1, x2)
        x == Tup([j \in DOMAIN x1 |-> IF j <= cd THEN xc[j] ELSE x1[j]])
        f_lin == FLin(p, pts, fs, i1, i2, r)
        f_real == ObjFun(p, x)
    IN  Tup([j \in DOMAIN f_real |-> RSub(f_lin[j], f_real[j])])

\* if abs(delta[j])<threshold: p_lin[j]+=1 / elif delta[j]>0: p_conv[j]+=1
\* (CountsConvexBelow: the second test with < in place of >)
CountsLinear(d, threshold) == RLt(RAbs(d), threshold)
\* (CountsConvexToo: the second test as an if of its own, not an elif)
CountsConvexToo(d, threshold) == RLt(Zero, d)
CountsConvexBelow(d, threshold) == ~CountsLinear(d, threshold) /\ RLt(d, Zero)
CountsConvex(d, threshold) == ~CountsLinear(d, threshold) /\ RLt(Zero, d)

\* _p_lin_conv past its guards: trials[k] = [i1, i2, r]
PLinConvResult(p, pts, fs, n_pairs, trials, threshold) ==
    LET fd == FDimension(p)
        delta == Tup([k \in 1..n_pairs |->
                    TrialDelta(p, pts, fs, trials[k].i1, trials[k].i2, trials[k].r)])
        lin(j) == Cardinality({k \in 1..n_pairs : CountsLinear(delta[k][j], threshold)})
        conv(j) == Cardinality({k \in 1..n_pairs : CountsConvex(delta[k][j], threshold)})
        dev(j) == SumSeq(Tup([k \in 1..n_pairs |-> RAbs(delta[k][j])]))
    IN  <<Tup([j \in 1..fd |-> Q(lin(j), n_pairs)]),
          Tup([j \in 1..fd |-> Q(conv(j), n_pairs)]),
          Tup([j \in 1..fd |-> RDiv(dev(j), I(n_pairs))])>>

\* the local optimiser (algo, island.evolve): from x0 it moves every
\* continuous coordinate to the minimiser of the polynomial and leaves the
\* integer coordinates alone
LocalSearch(p, x0) ==
    Tup([j \in DOMAIN x0 |-> IF j <= ContDim(p) THEN Zero ELSE x0[j]])

\* champion.f[0]: the objective itself when f_dim is 1, otherwise its
\* Tchebycheff decomposition with uniform weights and z = 0
ChampionF(p, x) ==
    LET fx == ObjFun(p, x)
        fd == FDimension(p)
        w(j) == RDiv(RAbs(fx[j]), I(fd))
    IN  IF fd = 1 THEN fx[1]
        ELSE CHOOSE m \in {w(j) : j \in 1..fd} : \A j \in 1..fd : RLe(w(j), m)

\* _get_local_extrema past its guard
LocalExtremaResult(p, pts, n, sample_size, idx) ==
    LET ip == SelectPoints(n, sample_size, idx)
        cnt == SelectCount(n, sample_size)
        bad == \E k \in 1..Len(ip) : ip[k] + 1 > Len(pts)
        ext == Tup([k \in 1..Len(ip) |-> LocalSearch(p, pts[ip[k] + 1])])
    IN  IF bad
        THEN [local_initial_points |-> ip, local_initial_npoints |-> cnt,
              local_extrema |-> <<>>, local_f |-> <<>>, exc |-> "IndexError"]
        ELSE [local_initial_points |-> ip, local_initial_npoints |-> cnt,
              local_extrema |-> ext,
              local_f |-> [k \in 1..Len(ip) |-> ChampionF(p, ext[k])],
              exc |-> "none"]

\* ------------------------------------------------------------- the state
VARIABLES
    prob, pop,                       \* the constructor's input
    npoints, points, f, lb, ub, dim, cont_dim, int_dim, f_dim,
    grad_npoints, grad_points, grad, grad_sparsity, average_abs_gradient,
    hess_npoints, hess_points, hess,
    lin_conv_npairs,
    local_initial_npoints, local_initial_points, local_extrema, local_f,
    local_nclusters,
    last,       \* the last call: its name, arguments, exception and result
    sampled,    \* history: some sample() call has returned
    searched,   \* history: get_local_extrema has been run
    unit,       \* history: the unit-cube points drawn by the last sample()
    calls,      \* history: the number of calls made on the object
    rich,       \* a Richardson evaluation in progress, loop pass by loop pass
    evals,      \* history: the points it has handed to objfun
    plin,       \* a _p_lin_conv call in progress, draw by draw
    pca,        \* a _perform_f_pca call in progress, eigen-pair by eigen-pair
    clus,       \* a _cluster_local_extrema call in progress
    search      \* a _get_local_extrema call in progress: its islands

sampleVars == <<npoints, points, f, lb, ub, dim, cont_dim, int_dim, f_dim>>
gradVars == <<grad_npoints, grad_points, grad, grad_sparsity, average_abs_gradient>>
hessVars == <<hess_npoints, hess_points, hess>>
localVars == <<local_initial_npoints, local_initial_points, local_extrema, local_f,
               local_nclusters>>
vars == <<prob, pop, sampleVars, gradVars, hessVars, lin_conv_npairs, localVars,
          last, sampled, searched, unit, calls, rich, evals, plin, pca, clus, search>>

Call(op, args, exc, msg, ret) ==
    [op |-> op, args |-> args, exc |-> exc, msg |-> msg, ret |-> ret]
SamplingFirst == "sampling first is necessary"
LocalExtremaFirst == "getting local extrema first is necessary"

\* the population handed to the constructor: two individuals of the problem
PopOf(p) ==
    LET xs == CASE p = "mixed" -> <<(<<Q(1, 2), I(1)>>), (<<I(-1), I(3)>>)>>
                [] p = "lin" -> <<(<<I(0), I(0)>>), (<<I(1), I(1)>>)>>
                [] p = "intp" -> <<(<<I(1)>>), (<<I(2)>>)>>
                [] OTHER -> <<ProbLb(p), ProbUb(p)>>
    IN  [i \in 1..2 |-> [cur_x |-> xs[i], cur_f |-> ObjFun(p, xs[i])]]

Idle == [pc |-> "idle"]

\* __init__: the attributes it sets; lb, ub and the results of later
\* operations do not exist yet
Constructed ==
    /\ grad_npoints = 0 /\ grad_points = <<>> /\ grad = <<>>
    /\ grad_sparsity = Unset /\ average_abs_gradient = Unset
    /\ hess_npoints = Unset /\ hess_points = Unset /\ hess = Unset
    /\ lin_conv_npairs = Unset   \* once assigned: the 1-tuple of its value
    /\ local_initial_npoints = 0 /\ local_initial_points = Unset
    /\ local_extrema = Unset /\ local_f = Unset /\ local_nclusters = 0

\* analysis(prob): no sample yet
InitFromProblem(ps) ==
    /\ prob \in ps /\ pop = <<>>
    /\ npoints = 0 /\ points = <<>> /\ f = <<>> /\ lb = Unset /\ ub = Unset
    /\ dim = 0 /\ cont_dim = 0 /\ int_dim = 0 /\ f_dim = 0
    /\ Constructed
    /\ last = Call("__init__", <<>>, "none", "", <<>>)
    /\ sampled = FALSE /\ searched = FALSE /\ unit = <<>>

\* analysis(pop): the constructor samples the whole population
InitFromPopulation(ps) ==
    /\ prob \in ps /\ pop = PopOf(prob)
    /\ LET r == SampleResult(prob, pop, Len(pop), "pop", 1, <<>>, <<>>)
       IN  /\ npoints = r.npoints /\ points = r.points /\ f = r.f
           /\ lb = r.lb /\ ub = r.ub /\ dim = r.dim /\ cont_dim = r.cont_dim
           /\ int_dim = r.int_dim /\ f_dim = r.f_dim /\ unit = r.unit
    /\ Constructed
    /\ last = Call("__init__", <<>>, "none", "", <<>>)
    /\ sampled = TRUE /\ searched = FALSE

Init ==
    /\ InitFromProblem(Problems) \/ InitFromPopulation(Problems)
    /\ calls = 0
    /\ rich = Idle /\ evals = {}
    /\ plin = Idle /\ pca = Idle /\ clus = Idle /\ search = Idle

\* ------------------------------------------------------------ the inputs
NPointsArgs == -1..(MaxNPoints + 1)
Methods == {"sobol", "lhs", "montecarlo", "pop", "bogus"}
UGrid == {Zero, Q(3, 4)}
RGrid == {Q(1, 4), Half}
SampleSizes == 0..MaxSampleSize
StepArgs == {Half}
TolArgs == {Half, One}
ZeroTolArgs == {Zero, One}
ThresholdArgs == {Q(1, 100)}

DrawSeqs(poplength, n) ==
    {rs \in [1..n -> 0..(poplength - 1)] : \A k \in 1..n : rs[k] <= poplength - k}
IndexDraws(n, sample_size) ==
    IF sample_size <= 0 \/ sample_size >= n THEN {<<>>}
    ELSE [1..sample_size -> 0..(n - 1)]

\* ----------------------------------------------------------- the actions
\* analysis.sample(npoints, method, first)
Sample(n, method, first, us, rs) ==
    \E r \in {SampleResult(prob, pop, n, method, first, us, rs)} :
        /\ npoints' = r.npoints /\ points' = r.points /\ f' = r.f
        /\ lb' = r.lb /\ ub' = r.ub /\ dim' = r.dim /\ cont_dim' = r.cont_dim
        /\ int_dim' = r.int_dim /\ f_dim' = r.f_dim
        /\ unit' = r.unit
        /\ sampled' = (sampled \/ r.exc = "none")
        /\ last' = Call("sample", [npoints |-> n, method |-> method, first |-> first],
                        r.exc, r.msg, <<>>)
        /\ UNCHANGED <<prob, pop, gradVars, hessVars, lin_conv_npairs, localVars,
                       searched, rich, evals, plin, pca, clus, search>>

SampleCall ==
    \E n \in NPointsArgs, method \in Methods, first \in 0..MaxFirst :
        /\ method = "sobol" \/ first = 1
        /\ method = "pop" \/ n <= MaxNPoints
        /\ \E us \in (IF method = "montecarlo" /\ n > 0
                      THEN [1..n -> [1..Dimension(prob) -> UGrid]] ELSE {<<>>}),
              rs \in (IF method = "pop" /\ 0 < n /\ n < Len(pop)
                      THEN DrawSeqs(Len(pop), n) ELSE {<<>>}) :
              Sample(n, method, first, us, rs)

\* analysis._mean(): any of the f-distribution features
MeanCall ==
    /\ last' = IF npoints = 0
               THEN Call("mean", <<>>, "ValueError", SamplingFirst, <<>>)
               ELSE IF f = <<>>
               THEN Call("mean", <<>>, "none", "", <<>>)   \* nan, with a warning
               ELSE Call("mean", <<>>, "none", "", Mean0(f, f_dim))
    /\ UNCHANGED <<prob, pop, sampleVars, gradVars, hessVars, lin_conv_npairs,
                   localVars, sampled, searched, unit, rich, evals, plin, pca, clus, search>>

\* analysis._p_lin_conv(n_pairs, threshold)
PLinConv(n_pairs, threshold, trials) ==
    LET args == [n_pairs |-> n_pairs, threshold |-> threshold]
        np == IF n_pairs = 0 THEN npoints ELSE n_pairs
        bad == \/ np > 0 /\ points = <<>>
               \/ \E k \in 1..Len(trials) :
                      trials[k].i1 + 1 > Len(points) \/ trials[k].i2 + 1 > Len(points)
    IN  /\ IF npoints = 0
           THEN /\ last' = Call("p_lin_conv", args, "ValueError", SamplingFirst, <<>>)
                /\ UNCHANGED lin_conv_npairs
           ELSE IF cont_dim = 0
           THEN /\ last' = Call("p_lin_conv", args, "ValueError",
                                "makes no sense for purely integer problems", <<>>)
                /\ UNCHANGED lin_conv_npairs
           ELSE IF np > 0 /\ npoints < 0
           THEN \* randint of a negative bound
                /\ last' = Call("p_lin_conv", args, "ValueError", "randint", <<>>)
                /\ UNCHANGED lin_conv_npairs
           ELSE IF np > 0 /\ npoints = 1
           THEN \* while (i2==i1): i2=randint(1) never leaves the loop
                /\ last' = Call("p_lin_conv", args, "diverges", "", <<>>)
                /\ UNCHANGED lin_conv_npairs
           ELSE IF bad
           THEN /\ last' = Call("p_lin_conv", args, "IndexError", "", <<>>)
                /\ UNCHANGED lin_conv_npairs
           ELSE \E r \in {IF np > 0
                         THEN PLinConvResult(prob, points, f, np, trials, threshold)
                         ELSE <<ZeroT(1, f_dim)[1], ZeroT(1, f_dim)[1],
                                ZeroT(1, f_dim)[1]>>} :
                /\ last' = Call("p_lin_conv", args, "none", "", r)
                /\ lin_conv_npairs' = <<np>>
        /\ UNCHANGED <<prob, pop, sampleVars, gradVars, hessVars, localVars,
                       sampled, searched, unit, rich, evals, plin, pca, clus, search>>

PLinConvCall ==
    \E n_pairs \in 0..MaxPairs, threshold \in ThresholdArgs :
        LET np == IF n_pairs = 0 THEN npoints ELSE n_pairs
        IN  \E trials \in (IF npoints >= 2 /\ cont_dim > 0 /\ np > 0 /\ points # <<>>
                           THEN [1..np -> {t \in [i1 : 0..(npoints - 1),
                                                  i2 : 0..(npoints - 1), r : RGrid] :
                                              t.i1 # t.i2}]
                           ELSE {<<>>}) :
                PLinConv(n_pairs, threshold, trials)

\* analysis._get_gradient(sample_size, h, grad_tol, zero_tol)
GetGradient(sample_size, idx, h, tol, zero_tol) ==
    LET args == [sample_size |-> sample_size, h |-> h, tol |-> tol, zero_tol |-> zero_tol]
    IN  IF npoints = 0
        THEN /\ last' = Call("get_gradient", args, "ValueError", SamplingFirst, <<>>)
             /\ UNCHANGED <<prob, pop, sampleVars, gradVars, hessVars, lin_conv_npairs,
                            localVars, sampled, searched, unit, rich, evals, plin, pca, clus, search>>
        ELSE \E r \in {GradientResult(prob, points, npoints, sample_size, idx, h, tol,
                                      zero_tol, average_abs_gradient)} :
             /\ grad_points' = r.grad_points /\ grad_npoints' = r.grad_npoints
             /\ grad' = r.grad /\ grad_sparsity' = r.grad_sparsity
             /\ average_abs_gradient' = r.average_abs_gradient
             /\ points' = r.points
             /\ last' = Call("get_gradient", args, r.exc, "", <<>>)
             /\ UNCHANGED <<prob, pop, npoints, f, lb, ub, dim, cont_dim, int_dim, f_dim,
                            hessVars, lin_conv_npairs, localVars, sampled, searched, unit,
                            rich, evals, plin, pca, clus, search>>

GetGradientCall ==
    \E sample_size \in SampleSizes, h \in StepArgs, tol \in TolArgs, zero_tol \in ZeroTolArgs :
        \E idx \in IndexDraws(npoints, sample_size) :
            GetGradient(sample_size, idx, h, tol, zero_tol)

\* analysis._get_hessian(sample_size, h, hess_tol)
GetHessian(sample_size, idx, h, tol) ==
    LET args == [sample_size |-> sample_size, h |-> h, tol |-> tol]
    IN  IF npoints = 0
        THEN /\ last' = Call("get_hessian", args, "ValueError", SamplingFirst, <<>>)
             /\ UNCHANGED <<prob, pop, sampleVars, gradVars, hessVars, lin_conv_npairs,
                            localVars, sampled, searched, unit, rich, evals, plin, pca, clus, search>>
        ELSE \E r \in {HessianResult(prob, points, npoints, sample_size, idx, h, tol)} :
             /\ hess_points' = r.hess_points /\ hess_npoints' = r.hess_npoints
             /\ hess' = r.hess
             /\ points' = r.points
             /\ last' = Call("get_hessian", args, r.exc, "", <<>>)
             /\ UNCHANGED <<prob, pop, npoints, f, lb, ub, dim, cont_dim, int_dim, f_dim,
                            gradVars, lin_conv_npairs, localVars, sampled, searched, unit,
                            rich, evals, plin, pca, clus, search>>

GetHessianCall ==
    \E sample_size \in SampleSizes, h \in StepArgs, tol \in TolArgs :
        \E idx \in IndexDraws(npoints, sample_size) :
            GetHessian(sample_size, idx, h, tol)

\* analysis._get_local_extrema(sample_size, algo, par, ...)
GetLocalExtrema(sample_size, idx) ==
    LET args == [sample_size |-> sample_size]
    IN  IF npoints = 0
        THEN /\ last' = Call("get_local_extrema", args, "ValueError", SamplingFirst, <<>>)
             /\ UNCHANGED <<prob, pop, sampleVars, gradVars, hessVars, lin_conv_npairs,
                            localVars, sampled, searched, unit, rich, evals, plin, pca, clus, search>>
        ELSE \E r \in {LocalExtremaResult(prob, points, npoints, sample_size, idx)} :
             /\ local_initial_points' = r.local_initial_points
             /\ local_initial_npoints' = r.local_initial_npoints
             /\ local_extrema' = r.local_extrema /\ local_f' = r.local_f
             /\ last' = Call("get_local_extrema", args, r.exc, "", <<>>)
             /\ searched' = TRUE
             /\ UNCHANGED <<prob, pop, sampleVars, gradVars, hessVars, lin_conv_npairs,
                            local_nclusters, sampled, unit, rich, evals, plin, pca, clus, search>>

GetLocalExtremaCall ==
    \E sample_size \in SampleSizes :
        \E idx \in IndexDraws(npoints, sample_size) :
            GetLocalExtrema(sample_size, idx)

\* analysis._cluster_local_extrema(...): the two ordering guards
ClusterLocalExtremaGuard ==
    /\ npoints = 0 \/ local_initial_npoints = 0
    /\ last' = IF npoints = 0
               THEN Call("cluster_local_extrema", <<>>, "ValueError", SamplingFirst, <<>>)
               ELSE Call("cluster_local_extrema", <<>>, "ValueError", LocalExtremaFirst, <<>>)
    /\ UNCHANGED <<prob, pop, sampleVars, gradVars, hessVars, lin_conv_npairs,
                   localVars, sampled, searched, unit, rich, evals, plin, pca, clus, search>>

\* the caller: any operation, up to MaxCalls calls on one object
Budget == calls < MaxCalls /\ calls' = calls + 1

Next ==
    \/ Budget /\ SampleCall
    \/ Budget /\ MeanCall
    \/ Budget /\ PLinConvCall
    \/ Budget /\ GetGradientCall
    \/ Budget /\ GetHessianCall
    \/ Budget /\ GetLocalExtremaCall
    \/ Budget /\ ClusterLocalExtremaGuard

Spec == Init /\ [][Next]_vars

\* ------------------------------------ one Richardson evaluation, by pass
\* _richardson_gradient(x,h,grad_tol,tmax) and _richardson_hessian(x,h,
\* hess_tol,tmax) called on an object built from a population, one action
\* per pass of the while loop and one for the return.
RichPoints(p) ==
    CASE p = "quad" -> {<<I(2), I(1)>>, <<I(-1), Q(1, 2)>>}
      [] p = "cubic" -> {<<Half, I(-1), I(1)>>, <<I(0), I(1), I(2)>>}
      [] p = "mixed" -> {<<Half, I(1)>>, <<I(-1), I(3)>>}
      [] OTHER -> {<<I(1)>>}
RichStepArgs == {Q(1, 4), Half, One}
RichTolArgs == {Q(1, 100), Half, One, I(2)}
RichTmaxArgs == (0..MaxTmax) \cup {TmaxDefault}

InitRich ==
    /\ InitFromPopulation(RichProblems)
    /\ calls = 0
    /\ evals = {}
    /\ plin = Idle /\ pca = Idle /\ clus = Idle /\ search = Idle
    /\ \E x \in RichPoints(prob), h \in RichStepArgs, tol \in RichTolArgs,
          tmax \in RichTmaxArgs, order \in 1..2 :
          rich = [pc |-> "loop", L |-> RichInit(prob, x, h, order), x0 |-> x, h |-> h,
                  tol |-> tol, tmax |-> tmax, order |-> order,
                  ret |-> [exc |-> "none", val |-> <<>>, x |-> x]]

\* one pass of the while loop
RichPass ==
    /\ rich.pc = "loop"
    /\ RichCond(rich.L, rich.tol, rich.tmax)
    /\ \E L2 \in {RichStep(prob, rich.L, rich.order)} :
          /\ rich' = [rich EXCEPT !.L = L2]
          /\ evals' = evals \cup (IF rich.order = 1
                                  THEN GradEvalPoints(prob, rich.L.x, L2.hh)
                                  ELSE HessEvalPoints(prob, rich.L.x, L2.hh))
    /\ UNCHANGED <<prob, pop, sampleVars, gradVars, hessVars, lin_conv_npairs,
                   localVars, last, sampled, searched, unit, calls, plin, pca, clus, search>>

\* the loop condition fails, or a pass raised: the routine returns or raises
RichExit ==
    /\ rich.pc = "loop"
    /\ ~RichCond(rich.L, rich.tol, rich.tmax)
    /\ rich' = [rich EXCEPT !.pc = "done",
                            !.ret = IF rich.order = 1 THEN RichReturn(rich.L)
                                    ELSE HessianReturn(prob, rich.L)]
    /\ UNCHANGED <<prob, pop, sampleVars, gradVars, hessVars, lin_conv_npairs,
                   localVars, last, sampled, searched, unit, calls, evals, plin, pca, clus, search>>

NextRich == RichPass \/ RichExit

SpecRich == InitRich /\ [][NextRich]_vars

\* --------------------------------------- one _p_lin_conv call, by draw
\* analysis built from a problem and sampled by sample(n, method)
InitSampled(ps, ns, methods) ==
    /\ prob \in ps /\ pop = <<>>
    /\ \E n \in ns, method \in methods :
          \E r \in {SampleResult(prob, <<>>, n, method, 1, <<>>, <<>>)} :
              /\ npoints = r.npoints /\ points = r.points /\ f = r.f
              /\ lb = r.lb /\ ub = r.ub /\ dim = r.dim /\ cont_dim = r.cont_dim
              /\ int_dim = r.int_dim /\ f_dim = r.f_dim /\ unit = r.unit
              /\ last = Call("sample", [npoints |-> n, method |-> method, first |-> 1],
                             r.exc, r.msg, <<>>)
    /\ Constructed
    /\ sampled = TRUE /\ searched = FALSE
    /\ calls = 0

objVars == <<prob, pop, sampleVars, gradVars, hessVars, localVars, last, sampled,
             searched, unit, calls>>

InitPLin ==
    /\ InitSampled(Problems, 1..MaxNPoints, {"sobol", "lhs"})
    /\ rich = Idle /\ evals = {} /\ pca = Idle /\ clus = Idle /\ search = Idle
    /\ \E n_pairs \in 0..MaxPairs, threshold \in ThresholdArgs \cup {Q(1, 20)} :
          plin = [pc |-> "call", arg |-> n_pairs, n_pairs |-> n_pairs,
                  threshold |-> threshold, i |-> 0, i1 |-> 0, i2 |-> 0,
                  p_lin |-> <<>>, p_conv |-> <<>>, mean_dev |-> <<>>,
                  hist |-> <<>>, exc |-> "none", ret |-> <<>>, spin |-> 0]

\* the guards, n_pairs=self.npoints when it is 0, the three zeros(f_dim)
PLinEnter ==
    /\ plin.pc = "call"
    /\ plin' = IF npoints = 0
               THEN [plin EXCEPT !.pc = "raised", !.exc = SamplingFirst]
               ELSE IF cont_dim = 0
               THEN [plin EXCEPT !.pc = "raised",
                                 !.exc = "makes no sense for purely integer problems"]
               ELSE [plin EXCEPT !.pc = "draw",
                                 !.n_pairs = IF plin.arg = 0 THEN npoints ELSE plin.arg,
                                 !.p_lin = Tup([j \in 1..f_dim |-> 0]),
                                 !.p_conv = Tup([j \in 1..f_dim |-> 0]),
                                 !.mean_dev = Tup([j \in 1..f_dim |-> Zero])]
    /\ UNCHANGED <<objVars, lin_conv_npairs, rich, evals, pca, clus, search>>

\* i1=randint(self.npoints); i2=randint(self.npoints)
PLinDraw ==
    /\ plin.pc = "draw" /\ plin.i < plin.n_pairs
    /\ \E a \in 0..(npoints - 1), b \in 0..(npoints - 1) :
          plin' = [plin EXCEPT !.i1 = a, !.i2 = b,
                               !.pc = IF b = a THEN "redraw" ELSE "trial"]
    /\ UNCHANGED <<objVars, lin_conv_npairs, rich, evals, pca, clus, search>>

\* while (i2==i1): i2=randint(self.npoints), drawing i1 again; spin is the
\* parity of the draws the loop has consumed from the generator
PLinRedrawSame ==
    /\ plin.pc = "redraw"
    /\ \E b \in 0..(npoints - 1) :
          b = plin.i1 /\ plin' = [plin EXCEPT !.i2 = b, !.spin = 1 - plin.spin]
    /\ UNCHANGED <<objVars, lin_conv_npairs, rich, evals, pca, clus, search>>

\* while (i2==i1): i2=randint(self.npoints), drawing another index
PLinRedrawDistinct ==
    /\ plin.pc = "redraw"
    /\ \E b \in 0..(npoints - 1) :
          b # plin.i1 /\ plin' = [plin EXCEPT !.i2 = b, !.pc = "trial"]
    /\ UNCHANGED <<objVars, lin_conv_npairs, rich, evals, pca, clus, search>>

\* r=random() and the rest of the loop body
PLinTrial ==
    /\ plin.pc = "trial"
    /\ \E r \in RGrid :
        \E delta \in {TrialDelta(prob, points, f, plin.i1, plin.i2, r)} :
          plin' = [plin EXCEPT
                     !.pc = "draw", !.i = plin.i + 1,
                     !.hist = Append(plin.hist, delta),
                     !.mean_dev = Tup([j \in 1..f_dim |->
                                         RAdd(plin.mean_dev[j], RAbs(delta[j]))]),
                     !.p_lin = Tup([j \in 1..f_dim |->
                                      IF CountsLinear(delta[j], plin.threshold)
                                      THEN plin.p_lin[j] + 1 ELSE plin.p_lin[j]]),
                     !.p_conv = Tup([j \in 1..f_dim |->
                                       IF CountsConvex(delta[j], plin.threshold)
                                       THEN plin.p_conv[j] + 1 ELSE plin.p_conv[j]])]
    /\ UNCHANGED <<objVars, lin_conv_npairs, rich, evals, pca, clus, search>>

\* p_lin/=n_pairs; p_conv/=n_pairs; mean_dev/=n_pairs; return
PLinReturn ==
    /\ plin.pc = "draw" /\ plin.i >= plin.n_pairs
    /\ plin' = [plin EXCEPT
                  !.pc = "done",
                  !.ret = <<Tup([j \in 1..f_dim |-> Q(plin.p_lin[j], plin.n_pairs)]),
                            Tup([j \in 1..f_dim |-> Q(plin.p_conv[j], plin.n_pairs)]),
                            Tup([j \in 1..f_dim |->
                                   RDiv(plin.mean_dev[j], I(plin.n_pairs))])>>]
    /\ lin_conv_npairs' = <<plin.n_pairs>>
    /\ UNCHANGED <<objVars, rich, evals, pca, clus, search>>

NextPLin ==
    \/ PLinEnter
    \/ PLinDraw
    \/ PLinRedrawSame
    \/ PLinRedrawDistinct
    \/ PLinTrial
    \/ PLinReturn

\* the interpreter keeps executing the call, and randint is fair: an index
\* that can be drawn is drawn sooner or later
SpecPLin ==
    /\ InitPLin /\ [][NextPLin]_vars
    /\ WF_vars(PLinEnter) /\ WF_vars(PLinDraw) /\ WF_vars(PLinRedrawSame)
    /\ WF_vars(PLinRedrawDistinct) /\ WF_vars(PLinTrial) /\ WF_vars(PLinReturn)

\* ------------------------------------ one _perform_f_pca call, by visit
\* argmax(v), argmin(v): the first position (from 0) of the largest and of
\* the smallest component
ArgMax(v) ==
    CHOOSE i \in 0..(Len(v) - 1) :
        /\ \A j \in 0..(Len(v) - 1) : RLe(v[j + 1], v[i + 1])
        /\ \A j \in 0..(i - 1) : RLt(v[j + 1], v[i + 1])
ArgMin(v) ==
    CHOOSE i \in 0..(Len(v) - 1) :
        /\ \A j \in 0..(Len(v) - 1) : RLe(v[i + 1], v[j + 1])
        /\ \A j \in 0..(i - 1) : RLt(v[i + 1], v[j + 1])

\* contributions=(asarray(abs(eigenvals))/sum(abs(eigenvals))).tolist()
Contributions(eigenvals) ==
    CHOOSE c \in {Tup([i \in 1..Len(eigenvals) |-> RDiv(RAbs(eigenvals[i]), s)]) :
                    s \in {SumSeq(Tup([i \in 1..Len(eigenvals) |->
                                         RAbs(eigenvals[i])]))}} : TRUE

\* eig_order=[y for (x,y) in sorted(zip(contributions,range(l)),reverse=True)]:
\* the pairs (contribution, index) in descending order
\* (EigOrderAscending: without reverse=True)
PairBefore(c, i, j) == RLt(c[j + 1], c[i + 1]) \/ (c[i + 1] = c[j + 1] /\ i > j)
EigOrderAscending(c) ==
    CHOOSE s \in [1..Len(c) -> 0..(Len(c) - 1)] :
        \A a \in 1..Len(c), b \in 1..Len(c) : a < b => PairBefore(c, s[b], s[a])
EigOrder(c) ==
    CHOOSE s \in [1..Len(c) -> 0..(Len(c) - 1)] :
        \A a \in 1..Len(c), b \in 1..Len(c) : a < b => PairBefore(c, s[a], s[b])

\* if all([k!=index for k in keep]): keep.append(index)
\* (KeepAppendAlways: the append without the test)
KeepAppendAlways(keep, index) == Append(keep, index)
KeepAppend(keep, index) ==
    IF \A k \in 1..Len(keep) : keep[k] # index THEN Append(keep, index) ELSE keep
KeepBoth(keep, index_p, index_n) == KeepAppend(KeepAppend(keep, index_p), index_n)

\* the body of "for i in eig_order" up to the update of the running total:
\* the kept list after it and whether it left the loop by break
VisitPair(first, lambda, vect, tabs, keep) ==
    LET l == Len(vect)
        index_p == ArgMax(vect)
        index_n == ArgMin(vect)
        p == vect[index_p + 1]
        n == vect[index_n + 1]
        all == [keep |-> Range0(l), brk |-> TRUE]
        on(k) == [keep |-> k, brk |-> FALSE]
    IN  IF first
        THEN IF RLt(Zero, p)
             THEN IF RLt(n, Zero)
                  THEN on(KeepBoth(keep, index_p, index_n))
                  ELSE on(KeepAppend(keep, index_p))
             ELSE all
        ELSE IF RLt(RAbs(lambda), tabs)
        THEN IF RLt(RAbs(n), RAbs(p))
             THEN on(KeepAppend(keep, index_p))
             ELSE on(KeepAppend(keep, index_n))
        ELSE IF RLe(Zero, n) THEN on(KeepAppend(keep, index_p))
        ELSE IF RLe(p, Zero) THEN all
        ELSE IF RLe(p, RAbs(n)) /\ RLe(RMul(Q(9, 10), RAbs(n)), p)
        THEN on(KeepBoth(keep, index_p, index_n))
        ELSE IF RLt(p, RMul(Q(9, 10), RAbs(n)))
        THEN on(KeepAppend(keep, index_n))
        ELSE IF RLe(RMul(Q(8, 10), p), RAbs(n))
        THEN on(KeepBoth(keep, index_p, index_n))
        ELSE on(KeepAppend(keep, index_p))

\* if cumulative_contribution>=tc or len(keep)==l: break
Stops(total, tc, keep, l) == RLe(tc, total) \/ Len(keep) = l

\* list(combinations(keep,2)): the pairs of kept objectives, in the order
\* of their positions
RECURSIVE PairsFrom(_, _, _)
PairsFrom(keep, a, b) ==
    IF a >= Len(keep) THEN <<>>
    ELSE IF b > Len(keep) THEN PairsFrom(keep, a + 1, a + 2)
    ELSE <<(<<keep[a], keep[b]>>)>> \o PairsFrom(keep, a, b + 1)
Combinations2(keep) == PairsFrom(keep, 1, 2)

\* all([x*y>0 for x,y in zip(M[c0],M[c1])])
SignsAgree(M, c0, c1) ==
    \A k \in 1..Len(M[c0 + 1]) : RLt(Zero, RMul(M[c0 + 1][k], M[c1 + 1][k]))

\* keep.index(x) and keep.remove(x)
IndexOf(keep, x) == CHOOSE k \in 1..Len(keep) : keep[k] = x /\ \A m \in 1..(k - 1) : keep[m] # x
Remove(keep, x) == RemoveAt(keep, IndexOf(keep, x))
Contains(keep, x) == \E k \in 1..Len(keep) : keep[k] = x

\* the body of "for i in range(len(c))"
DropRedundant(M, keep, pair) ==
    IF SignsAgree(M, pair[1], pair[2]) /\ Contains(keep, pair[2]) /\ Contains(keep, pair[1])
    THEN IF IndexOf(keep, pair[1]) < IndexOf(keep, pair[2])
         THEN Remove(keep, pair[2])
         ELSE Remove(keep, pair[1])
    ELSE keep

\* sorted(keep)
Sorted(keep) ==
    CHOOSE s \in [1..Len(keep) -> {keep[k] : k \in 1..Len(keep)}] :
        /\ \A x \in {keep[k] : k \in 1..Len(keep)} :
              Cardinality({k \in 1..Len(keep) : s[k] = x}) =
              Cardinality({k \in 1..Len(keep) : keep[k] = x})
        /\ \A a \in 1..Len(keep), b \in 1..Len(keep) : a < b => s[a] <= s[b]

\* obj_corr handed to the call: a correlation matrix M of f_dim objectives,
\* its eigenvalues in ascending order as eigh returns them, and an
\* eigenvector per eigenvalue.  Eigenvectors are written up to a positive
\* factor, which no test of the code depends on; either sign of each is an
\* eigen-decomposition.
Decompositions ==
  LET Corr2(c) == <<(<<One, c>>), (<<c, One>>)>>
      Equi3(a) == <<(<<One, a, a>>), (<<a, One, a>>), (<<a, a, One>>)>>
      Block3(c) == <<(<<One, c, Zero>>), (<<c, One, Zero>>), (<<Zero, Zero, One>>)>>
      Anti3 == <<(<<One, One, I(-1)>>), (<<One, One, I(-1)>>), (<<I(-1), I(-1), One>>)>>
      Decomposition(M, eigenvals, vects) ==
          [M |-> M, eigenvals |-> eigenvals, vects |-> vects]
  IN
    { Decomposition(<<(<<One>>)>>, <<One>>, <<(<<1>>)>>),
      Decomposition(Corr2(One), <<Zero, I(2)>>, <<(<<1, -1>>), (<<1, 1>>)>>),
      Decomposition(Corr2(Half), <<Half, Q(3, 2)>>, <<(<<1, -1>>), (<<1, 1>>)>>),
      Decomposition(Corr2(Zero), <<One, One>>, <<(<<1, 0>>), (<<0, 1>>)>>),
      Decomposition(Corr2(Q(-1, 2)), <<Half, Q(3, 2)>>, <<(<<1, 1>>), (<<1, -1>>)>>),
      Decomposition(Corr2(I(-1)), <<Zero, I(2)>>, <<(<<1, 1>>), (<<1, -1>>)>>),
      Decomposition(Equi3(One), <<Zero, Zero, I(3)>>,
                    <<(<<1, -1, 0>>), (<<1, 1, -2>>), (<<1, 1, 1>>)>>),
      Decomposition(Equi3(Half), <<Half, Half, I(2)>>,
                    <<(<<1, -1, 0>>), (<<1, 1, -2>>), (<<1, 1, 1>>)>>),
      Decomposition(Equi3(Half), <<Half, Half, I(2)>>,
                    <<(<<5, -4, -1>>), (<<1, 2, -3>>), (<<1, 1, 1>>)>>),
      Decomposition(Equi3(Half), <<Half, Half, I(2)>>,
                    <<(<<10, -9, -1>>), (<<8, 11, -19>>), (<<1, 1, 1>>)>>),
      Decomposition(Equi3(Q(-1, 2)), <<Zero, Q(3, 2), Q(3, 2)>>,
                    <<(<<1, 1, 1>>), (<<1, -1, 0>>), (<<1, 1, -2>>)>>),
      Decomposition(Block3(One), <<Zero, One, I(2)>>,
                    <<(<<1, -1, 0>>), (<<0, 0, 1>>), (<<1, 1, 0>>)>>),
      Decomposition(Block3(Half), <<Half, One, Q(3, 2)>>,
                    <<(<<1, -1, 0>>), (<<0, 0, 1>>), (<<1, 1, 0>>)>>),
      Decomposition(Anti3, <<Zero, Zero, I(3)>>,
                    <<(<<1, -1, 0>>), (<<1, 1, 2>>), (<<1, 1, -1>>)>>) }
Signed(vects, sign) ==
    Tup([i \in 1..Len(vects) |-> Tup([k \in 1..Len(vects[i]) |-> I(sign[i] * vects[i][k])])])
TcArgs == {Half, Q(19, 20), One}
TabsArgs == {Q(1, 10), One}
PcaProblems == {"lin", "mixed", "tri"}

\* obj_corr is None (the call then takes the lists _f_correlation returns)
\* or given with its eigenvalues in a list or in an array
InitPca ==
    /\ InitSampled(PcaProblems, {2}, {"sobol"})
    /\ rich = Idle /\ evals = {} /\ plin = Idle /\ clus = Idle /\ search = Idle
    /\ \E obj_corr \in {"None", "list", "array"}, d \in Decompositions,
          sign \in [1..3 -> {-1, 1}], tc \in TcArgs, tabs \in TabsArgs :
          /\ Len(d.eigenvals) = f_dim
          /\ obj_corr = "None" => d = CHOOSE e \in Decompositions : Len(e.eigenvals) = f_dim
          /\ (obj_corr = "None" \/ f_dim < 3) => sign[3] = 1
          /\ (obj_corr = "None" \/ f_dim < 2) => sign[2] = 1
          /\ obj_corr = "None" => (sign[1] = 1 /\ tabs = Q(1, 10))
          /\ pca = [pc |-> "call", obj_corr |-> obj_corr,
                    M |-> IF obj_corr = "None" THEN <<>> ELSE d.M,
                    eigenvals |-> IF obj_corr = "None" THEN <<>> ELSE d.eigenvals,
                    eigenvects |-> IF obj_corr = "None" THEN <<>>
                                   ELSE Signed(d.vects, sign),
                    tc |-> tc, tabs |-> tabs, contributions |-> <<>>,
                    eig_order |-> <<>>, pos |-> 0, cumulative_contribution |-> Zero,
                    keep |-> <<>>, first |-> TRUE, kept |-> <<>>, c |-> <<>>, ci |-> 0,
                    visited |-> <<>>, exc |-> "none", msg |-> "", ret |-> <<>>]

pcaRest == <<objVars, lin_conv_npairs, rich, evals, plin, clus, search>>

\* obj_corr=self._f_correlation() when None, with the guards of
\* _f_correlation; then lines 628-636: abs() of a list is a TypeError
PcaEnter ==
    /\ pca.pc = "call"
    /\ pca' =
         IF pca.obj_corr = "None" /\ npoints = 0
         THEN [pca EXCEPT !.pc = "raised", !.exc = "ValueError", !.msg = SamplingFirst]
         ELSE IF pca.obj_corr = "None" /\ f_dim < 2
         THEN [pca EXCEPT !.pc = "raised", !.exc = "ValueError",
                          !.msg = "makes no sense for single-objective optimisation"]
         ELSE IF pca.obj_corr \in {"None", "list"}
         THEN [pca EXCEPT !.pc = "raised", !.exc = "TypeError",
                          !.msg = "bad operand type for abs(): 'list'"]
         ELSE [pca EXCEPT !.pc = "visit", !.pos = 1,
                          !.contributions = Contributions(pca.eigenvals),
                          !.eig_order = Tup(EigOrder(Contributions(pca.eigenvals)))]
    /\ UNCHANGED pcaRest

\* one pass of "for i in eig_order"
PcaVisit ==
    /\ pca.pc = "visit" /\ pca.pos <= Len(pca.eig_order)
    /\ \E i \in {pca.eig_order[pca.pos]} :
       \E v \in {VisitPair(pca.first, pca.eigenvals[i + 1], pca.eigenvects[i + 1],
                           pca.tabs, pca.keep)} :
       \E total \in {IF v.brk THEN pca.cumulative_contribution
                     ELSE RAdd(pca.cumulative_contribution, pca.contributions[i + 1])} :
          pca' = [pca EXCEPT
                    !.first = FALSE, !.keep = v.keep,
                    !.cumulative_contribution = total,
                    !.visited = Append(pca.visited,
                                       [i |-> i, brk |-> v.brk, total |-> total,
                                        nkeep |-> Len(v.keep)]),
                    !.pos = pca.pos + 1,
                    !.pc = IF v.brk \/ Stops(total, pca.tc, v.keep, Len(pca.eigenvals))
                              \/ pca.pos = Len(pca.eig_order)
                           THEN "correlate" ELSE "visit"]
    /\ UNCHANGED pcaRest

\* if len(keep)>2: c=list(combinations(keep,2)); kept is the list the loop
\* over the eigen-pairs has left
PcaCombinations ==
    /\ pca.pc = "correlate"
    /\ pca' = IF Len(pca.keep) > 2
              THEN [pca EXCEPT !.pc = "pair", !.kept = pca.keep,
                               !.c = Combinations2(pca.keep), !.ci = 1]
              ELSE [pca EXCEPT !.pc = "return", !.kept = pca.keep]
    /\ UNCHANGED pcaRest

\* one pass of "for i in range(len(c))"
PcaPair ==
    /\ pca.pc = "pair" /\ pca.ci <= Len(pca.c)
    /\ pca' = [pca EXCEPT !.keep = DropRedundant(pca.M, pca.keep, pca.c[pca.ci]),
                          !.ci = pca.ci + 1,
                          !.pc = IF pca.ci = Len(pca.c) THEN "return" ELSE "pair"]
    /\ UNCHANGED pcaRest

\* return sorted(keep)
PcaReturn ==
    /\ pca.pc = "return"
    /\ pca' = [pca EXCEPT !.pc = "done", !.ret = Tup(Sorted(pca.keep))]
    /\ UNCHANGED pcaRest

NextPca ==
    \/ PcaEnter
    \/ PcaVisit
    \/ PcaCombinations
    \/ PcaPair
    \/ PcaReturn

SpecPca == InitPca /\ [][NextPca]_vars

\* --------------------------- one _cluster_local_extrema call, step by step
\* np.mean(np.ptp(self.f,0)) and np.mean(self.f)
MaxOf(s) == CHOOSE m \in {s[i] : i \in 1..Len(s)} : \A i \in 1..Len(s) : RLe(s[i], m)
Ptp(s) ==
    RSub(MaxOf(s), CHOOSE m \in {s[i] : i \in 1..Len(s)} : \A i \in 1..Len(s) : RLe(m, s[i]))
RangeF(fs, fd) ==
    RDiv(SumSeq(Tup([j \in 1..fd |-> Ptp(Tup([i \in 1..Len(fs) |-> fs[i][j]]))])), I(fd))
MeanF(fs, fd) ==
    RDiv(SumSeq(Tup([j \in 1..fd |-> SumSeq(Tup([i \in 1..Len(fs) |-> fs[i][j]]))])),
         I(fd * Len(fs)))

\* dataset[i][j]=(self.local_extrema[i][j]-0.5*self.ub[j]-0.5*self.lb[j])/
\* (self.ub[j]-self.lb[j]); dataset[i][self.dim]=(self.local_f[i]-mean_f)/range_f
Dataset(ext, lf, lo, hi, d, mean_f, range_f) ==
    Tup([i \in 1..Len(ext) |->
           Tup([j \in 1..(d + 1) |->
                  IF j <= d
                  THEN RDiv(RSub(RSub(ext[i][j], RMul(Half, hi[j])), RMul(Half, lo[j])),
                            RSub(hi[j], lo[j]))
                  ELSE RDiv(RSub(lf[i], mean_f), range_f)])])

\* the square of np.linalg.norm(a-b): distances are only compared with
\* each other, squared or summed as squares
Dist2(a, b) ==
    SumSeq(Tup([j \in 1..Len(a) |-> RMul(RSub(a[j], b[j]), RSub(a[j], b[j]))]))

\* sklearn's KMeans(k) fitted to the dataset: labels y in 0..k-1, each
\* label used, cluster_centers_ the means of the groups, every point at
\* least as near to its own centre as to any other.  Which of these
\* fixed points comes out, and under which labels, is up to the library.
Members(y, c) == {i \in 1..Len(y) : y[i] = c}
KMeansFits(data, k) ==
    LET Nth(S, m) == CHOOSE i \in S : Cardinality({h \in S : h < i}) = m - 1
        Centroid(S) ==
            Tup([j \in 1..Len(data[1]) |->
                   RDiv(SumSeq(Tup([m \in 1..Cardinality(S) |-> data[Nth(S, m)][j]])),
                        I(Cardinality(S)))])
        Centers(y) == Tup([c \in 1..k |-> Centroid(Members(y, c - 1))])
    IN  {fit \in {[y |-> Tup(y), centers |-> Centers(y)] :
                    y \in {z \in [1..Len(data) -> 0..(k - 1)] :
                             \A c \in 0..(k - 1) : Members(z, c) # {}}} :
            \A i \in 1..Len(data), c \in 1..k :
                RLe(Dist2(data[i], fit.centers[fit.y[i] + 1]),
                    Dist2(data[i], fit.centers[c]))}

\* cluster_size[y[i]]+=1
\* (ClusterSizeOffByOne: the count of label c kept in slot c-1)
ClusterSizeOffByOne(y, k) == Tup([c \in 1..k |-> Cardinality(Members(y, c))])
ClusterSize(y, k) == Tup([c \in 1..k |-> Cardinality(Members(y, c - 1))])

\* var_tot, and var_exp/var_tot of one pass of the while loop
VarTot(data, total_center) ==
    SumSeq(Tup([i \in 1..Len(data) |-> Dist2(data[i], total_center)]))
VarRatio(data, fit, k, total_center) ==
    RDiv(SumSeq(Tup([c \in 1..k |->
                       RMul(I(Cardinality(Members(fit.y, c - 1))),
                            Dist2(fit.centers[c], total_center))])),
         VarTot(data, total_center))

\* while var_ratio<=variance_ratio and k<=kmax
GoesOn(var_ratio, variance_ratio, k, kmax) ==
    RLe(var_ratio, variance_ratio) /\ k <= kmax

\* order=[x for (y,x) in sorted(zip(cluster_value,range(self.local_nclusters)))]
\* (OrderByLabel: the clusters left in the order of their labels)
OrderByLabel(centers, d) == Range0(Len(centers))
Order(centers, d) ==
    Tup(CHOOSE s \in [1..Len(centers) -> 0..(Len(centers) - 1)] :
          \A a \in 1..Len(centers), b \in 1..Len(centers) :
              a < b => \/ RLt(centers[s[a] + 1][d + 1], centers[s[b] + 1][d + 1])
                       \/ /\ centers[s[a] + 1][d + 1] = centers[s[b] + 1][d + 1]
                          /\ s[a] < s[b])

\* lines 1289-1315: the attributes stored in the order of the clusters;
\* local_cluster_rx is kept as its square
Stored(ext, lf, lo, hi, d, mean_f, range_f, y, cluster_size, centers, order) ==
    LET n == Len(order)
        labels == Tup([i \in 1..Len(y) |->
                         (CHOOSE j \in 1..n : order[j] = y[i]) - 1])
        sizes == Tup([i \in 1..n |-> cluster_size[order[i] + 1]])
        x_centers ==
            Tup([i \in 1..n |->
                   Tup([j \in 1..d |->
                          RAdd(RMul(centers[order[i] + 1][j], RSub(hi[j], lo[j])),
                               RMul(Half, RAdd(hi[j], lo[j])))])])
        of(c) == {i \in 1..Len(y) : labels[i] = c - 1}
        Nth(S, m) == CHOOSE i \in S : Cardinality({h \in S : h < i}) = m - 1
    IN  [local_cluster |-> labels,
         local_cluster_size |-> sizes,
         local_cluster_x_centers |-> x_centers,
         local_cluster_f_centers |->
             Tup([i \in 1..n |-> RAdd(RMul(centers[order[i] + 1][d + 1], range_f), mean_f)]),
         local_cluster_rx2 |->
             Tup([c \in 1..n |->
                    IF sizes[c] = 1 THEN Zero
                    ELSE MaxOf(Tup([i \in 1..Len(y) |->
                                      IF labels[i] = c - 1
                                      THEN Dist2(ext[i], x_centers[c]) ELSE Zero]))]),
         local_cluster_df |->
             Tup([c \in 1..n |->
                    IF sizes[c] = 1 THEN Zero
                    ELSE Ptp(Tup([m \in 1..Cardinality(of(c)) |-> lf[Nth(of(c), m)]]))])]

\* the local searches, run by an optimiser outside this file: each ends in
\* one of the minima of the problem
Minima(p) == IF p = "wells" THEN {<<I(0)>>, <<I(1)>>, <<I(2)>>} ELSE {<<I(0)>>}
SearchResults(p, n) ==
    {s \in [1..n -> Minima(p)] : \A a \in 1..n, b \in 1..n : a # b => s[a] # s[b]}
VarianceRatioArgs == {I(-1), Q(3, 4), Q(19, 20), One}
FixedKArgs == 0..4
KmaxArgs == 0..4
ToleranceArgs == {Q(1, 10000), One}

\* analysis(prob), sample(n), get_local_extrema(): every sampled point a
\* starting point
InitClus ==
    /\ prob = "wells" /\ pop = <<>>
    /\ \E n \in {1, 3} :
          \E r \in {SampleResult(prob, <<>>, n, "sobol", 1, <<>>, <<>>)} :
              /\ npoints = r.npoints /\ points = r.points /\ f = r.f
              /\ lb = r.lb /\ ub = r.ub /\ dim = r.dim /\ cont_dim = r.cont_dim
              /\ int_dim = r.int_dim /\ f_dim = r.f_dim /\ unit = r.unit
              /\ local_initial_npoints = n /\ local_initial_points = Range0(n)
              /\ \E s \in SearchResults(prob, n) :
                    /\ local_extrema = Tup(s)
                    /\ local_f = Tup([i \in 1..n |-> ChampionF(prob, s[i])])
    /\ grad_npoints = 0 /\ grad_points = <<>> /\ grad = <<>>
    /\ grad_sparsity = Unset /\ average_abs_gradient = Unset
    /\ hess_npoints = Unset /\ hess_points = Unset /\ hess = Unset
    /\ lin_conv_npairs = Unset /\ local_nclusters = 0
    /\ last = Call("get_local_extrema", [sample_size |-> 0], "none", "", <<>>)
    /\ sampled = TRUE /\ searched = TRUE /\ calls = 0
    /\ rich = Idle /\ evals = {} /\ plin = Idle /\ pca = Idle /\ search = Idle
    /\ \E variance_ratio \in VarianceRatioArgs, k \in FixedKArgs, kmax \in KmaxArgs,
          single_cluster_tolerance \in ToleranceArgs :
          /\ k # 0 => (variance_ratio = Q(19, 20) /\ kmax = 0)
          /\ clus = [pc |-> "call", variance_ratio |-> variance_ratio, k_arg |-> k,
                     single_cluster_tolerance |-> single_cluster_tolerance,
                     kmax_arg |-> kmax, kmax |-> kmax, k |-> k,
                     dataset |-> <<>>, range_f |-> Zero, mean_f |-> Zero,
                     total_center |-> <<>>, var_tot |-> Zero, var_ratio |-> Zero,
                     fit |-> [y |-> <<>>, centers |-> <<>>], ybound |-> FALSE,
                     cluster_size |-> <<>>, order |-> <<>>, passes |-> <<>>,
                     stored |-> <<>>, exc |-> "none", msg |-> ""]

clusRest == <<prob, pop, sampleVars, gradVars, hessVars, lin_conv_npairs,
              local_initial_npoints, local_initial_points, local_extrema, local_f,
              last, sampled, searched, unit, calls, rich, evals, plin, pca, search>>

ClusRaise(exc, msg) == [clus EXCEPT !.pc = "raised", !.exc = exc, !.msg = msg]

\* lines 1212-1238: the guards, range_f, mean_f, kmax and the dataset
ClusEnter ==
    /\ clus.pc = "call"
    /\ \E range_f \in {IF npoints = 0 THEN Zero ELSE RangeF(f, f_dim)},
          mean_f \in {IF npoints = 0 THEN Zero ELSE MeanF(f, f_dim)} :
          clus' =
            IF npoints = 0 THEN ClusRaise("ValueError", SamplingFirst)
            ELSE IF local_initial_npoints = 0
            THEN ClusRaise("ValueError", LocalExtremaFirst)
            ELSE IF RLt(range_f, clus.single_cluster_tolerance)
            THEN ClusRaise("ValueError", "the results appear to be constant")
            ELSE [clus EXCEPT
                    !.pc = IF clus.k_arg # 0 THEN "fixed" ELSE "single",
                    !.range_f = range_f, !.mean_f = mean_f,
                    !.kmax = IF clus.kmax_arg = 0 THEN local_initial_npoints
                             ELSE clus.kmax_arg,
                    !.dataset = Dataset(local_extrema, local_f, lb, ub, dim,
                                        mean_f, range_f)]
    /\ UNCHANGED <<clusRest, local_nclusters>>

\* lines 1239-1248: cluster to the given number of clusters; KMeans refuses
\* more clusters than samples
ClusFixed ==
    /\ clus.pc = "fixed"
    /\ \/ /\ clus.k_arg > Len(clus.dataset)
          /\ clus' = ClusRaise("ValueError", "n_samples should be >= n_clusters")
          /\ UNCHANGED local_nclusters
       \/ /\ clus.k_arg <= Len(clus.dataset)
          /\ \E fit \in KMeansFits(clus.dataset, clus.k_arg) :
                clus' = [clus EXCEPT !.pc = "store", !.fit = fit, !.ybound = TRUE,
                                     !.cluster_size = ClusterSize(fit.y, clus.k_arg)]
          /\ local_nclusters' = clus.k_arg
    /\ UNCHANGED clusRest

\* lines 1250-1265: KMeans(1), the single cluster scenario, or k=2 and the
\* total variance
ClusSingle ==
    /\ clus.pc = "single"
    /\ \E fit \in KMeansFits(clus.dataset, 1) :
       \E total_radius2 \in {MaxOf(Tup([i \in 1..Len(clus.dataset) |->
                                          Dist2(clus.dataset[i], fit.centers[1])]))},
          bound \in {RMul(clus.single_cluster_tolerance, I(dim + 1))} :
          IF RLt(Zero, bound) /\ RLt(total_radius2, RMul(bound, bound))
          THEN /\ clus' = [clus EXCEPT !.pc = "store", !.fit = fit, !.ybound = TRUE,
                                       !.total_center = fit.centers[1],
                                       !.cluster_size = ClusterSize(fit.y, 1)]
               /\ local_nclusters' = 1
          ELSE /\ clus' = [clus EXCEPT !.pc = "loop", !.k = 2, !.fit = fit,
                                       !.total_center = fit.centers[1],
                                       !.var_tot = VarTot(clus.dataset, fit.centers[1]),
                                       !.var_ratio = Zero]
               /\ UNCHANGED local_nclusters
    /\ UNCHANGED clusRest

\* lines 1266-1280: one pass of the while loop
ClusPass ==
    /\ clus.pc = "loop"
    /\ GoesOn(clus.var_ratio, clus.variance_ratio, clus.k, clus.kmax)
    /\ \/ /\ clus.k > Len(clus.dataset)
          /\ clus' = ClusRaise("ValueError", "n_samples should be >= n_clusters")
       \/ /\ clus.k <= Len(clus.dataset)
          /\ \E fit \in KMeansFits(clus.dataset, clus.k) :
             \E var_ratio \in {VarRatio(clus.dataset, fit, clus.k, clus.total_center)} :
                clus' = [clus EXCEPT
                           !.fit = fit, !.ybound = TRUE,
                           !.cluster_size = ClusterSize(fit.y, clus.k),
                           !.var_ratio = var_ratio, !.k = clus.k + 1,
                           !.passes = Append(clus.passes,
                                             [k |-> clus.k, var_ratio |-> var_ratio])]
    /\ UNCHANGED <<clusRest, local_nclusters>>

\* lines 1281-1283: local_cluster=list(y), with y bound only by a pass of
\* the loop; self.local_nclusters=k-1
ClusLoopExit ==
    /\ clus.pc = "loop"
    /\ ~GoesOn(clus.var_ratio, clus.variance_ratio, clus.k, clus.kmax)
    /\ IF clus.ybound
       THEN /\ clus' = [clus EXCEPT !.pc = "store"]
            /\ local_nclusters' = clus.k - 1
       ELSE /\ clus' = ClusRaise("UnboundLocalError",
                                 "local variable 'y' referenced before assignment")
            /\ UNCHANGED local_nclusters
    /\ UNCHANGED clusRest

\* lines 1285-1315: the reordering and the stored attributes
ClusStore ==
    /\ clus.pc = "store"
    /\ \E order \in {Order(clus.fit.centers, dim)} :
          clus' = [clus EXCEPT
                     !.pc = "done", !.order = order,
                     !.stored = Stored(local_extrema, local_f, lb, ub, dim, clus.mean_f,
                                       clus.range_f, clus.fit.y, clus.cluster_size,
                                       clus.fit.centers, order)]
    /\ UNCHANGED <<clusRest, local_nclusters>>

NextClus ==
    \/ ClusEnter
    \/ ClusFixed
    \/ ClusSingle
    \/ ClusPass
    \/ ClusLoopExit
    \/ ClusStore

SpecClus == InitClus /\ [][NextClus]_vars

\* ------------------------------- sampling a population, call after call
\* analysis(pop) built from a population of four individuals, each with
\* the chromosome and the fitness vector the population holds for it, and
\* then sample(npoints,'pop') called on it
Individuals(p) ==
    LET xs == Tup([i \in 1..4 |-> ResizePoint(p, SobolNext(Dimension(p), i))])
    IN  Tup([i \in 1..4 |-> [cur_x |-> xs[i], cur_f |-> ObjFun(p, xs[i])]])

InitPop ==
    /\ prob \in {"lin", "mixed"} /\ pop = Individuals(prob)
    /\ \E r \in {SampleResult(prob, pop, Len(pop), "pop", 1, <<>>, <<>>)} :
          /\ npoints = r.npoints /\ points = r.points /\ f = r.f
          /\ lb = r.lb /\ ub = r.ub /\ dim = r.dim /\ cont_dim = r.cont_dim
          /\ int_dim = r.int_dim /\ f_dim = r.f_dim /\ unit = r.unit
    /\ Constructed
    /\ last = Call("__init__", <<>>, "none", "", <<>>)
    /\ sampled = TRUE /\ searched = FALSE /\ calls = 0
    /\ rich = Idle /\ evals = {} /\ plin = Idle /\ pca = Idle /\ clus = Idle /\ search = Idle

PopSampleCall ==
    /\ Budget
    /\ \E n \in 0..(Len(pop) + 1) :
       \E rs \in (IF 0 < n /\ n < Len(pop) THEN DrawSeqs(Len(pop), n) ELSE {<<>>}) :
          Sample(n, "pop", 1, <<>>, rs)

SpecPop == InitPop /\ [][PopSampleCall]_vars

\* ------------------------------- one _get_local_extrema call, by island
\* island and archipelago are the library's: evolve(1) starts the
\* evolution of an island (of every island of an archipelago) and returns,
\* the islands then finish in any order; join() returns once every island
\* has finished; the getters of an island wait for its evolution; an
\* archipelago is iterated in the order of its push_back calls.
ArchiIterReversed(islands, i) == islands[Len(islands) + 1 - i]
ArchiIter(islands, i) == islands[i]

EvolutionTimes == {1, 2}

InitSearch ==
    /\ InitSampled({"mixed", "intp"}, {1, MaxIslands}, {"sobol"})
    /\ rich = Idle /\ evals = {} /\ plin = Idle /\ pca = Idle /\ clus = Idle
    /\ \E par \in BOOLEAN, sample_size \in SampleSizes :
       \E idx \in IndexDraws(npoints, sample_size) :
          search = [pc |-> "call", par |-> par, sample_size |-> sample_size,
                    idx |-> idx, i |-> 0, islands |-> <<>>, finished |-> <<>>,
                    local_search_time |-> <<>>, exc |-> "none"]

searchRest == <<prob, pop, sampleVars, gradVars, hessVars, lin_conv_npairs,
                local_nclusters, last, sampled, unit, calls, rich, evals, plin, pca, clus>>

\* lines 1114-1139: the guard, the initial points, the three empty lists
SearchEnter ==
    /\ search.pc = "call"
    /\ IF npoints = 0
       THEN /\ search' = [search EXCEPT !.pc = "raised", !.exc = "ValueError"]
            /\ UNCHANGED <<local_initial_npoints, local_initial_points, local_extrema,
                           local_f, searched>>
       ELSE /\ local_initial_points' = SelectPoints(npoints, search.sample_size, search.idx)
            /\ local_initial_npoints' = SelectCount(npoints, search.sample_size)
            /\ local_extrema' = <<>> /\ local_f' = <<>>
            /\ searched' = TRUE
            /\ search' = [search EXCEPT !.pc = "build"]
    /\ UNCHANGED searchRest

\* lines 1160-1166: pop.push_back(self.points[self.local_initial_points[i]]),
\* isl=island(algo,pop), and archi.push_back(isl) or isl.evolve(1)
SearchPush ==
    /\ search.pc = "build" /\ search.i < local_initial_npoints
    /\ \E isl \in {[x0 |-> points[local_initial_points[search.i + 1] + 1],
                    state |-> IF search.par THEN "idle" ELSE "evolving",
                    x |-> <<>>, f |-> Zero, time |-> 0]} :
          search' = [search EXCEPT !.islands = Append(search.islands, isl),
                                   !.i = IF search.par THEN search.i + 1 ELSE search.i,
                                   !.pc = IF search.par THEN "build" ELSE "getters"]
    /\ UNCHANGED <<searchRest, local_initial_npoints, local_initial_points,
                   local_extrema, local_f, searched>>

\* the evolution of one island ends: its champion and its evolution time
IslandFinish ==
    /\ search.pc \in {"getters", "join"}
    /\ \E k \in 1..Len(search.islands), time \in EvolutionTimes :
          /\ search.islands[k].state = "evolving"
          /\ \E x \in {LocalSearch(prob, search.islands[k].x0)} :
                search' = [search EXCEPT
                             !.islands[k] = [x0 |-> search.islands[k].x0, state |-> "done",
                                             x |-> x, f |-> ChampionF(prob, x),
                                             time |-> time],
                             !.finished = Append(search.finished, k - 1)]
    /\ UNCHANGED <<searchRest, local_initial_npoints, local_initial_points,
                   local_extrema, local_f, searched>>

\* lines 1167-1170 (par=False): the getters of the island just evolved
SeqRead ==
    /\ search.pc = "getters"
    /\ \E isl \in {search.islands[search.i + 1]} :
          /\ isl.state = "done"
          /\ local_extrema' = Append(local_extrema, isl.x)
          /\ local_f' = Append(local_f, isl.f)
          /\ search' = [search EXCEPT
                          !.local_search_time = Append(search.local_search_time, isl.time),
                          !.i = search.i + 1, !.pc = "build"]
    /\ UNCHANGED <<searchRest, local_initial_npoints, local_initial_points, searched>>

\* the loop of line 1160 is over: archi.evolve(1) when par, else the end
SearchEvolve ==
    /\ search.pc = "build" /\ search.i = local_initial_npoints
    /\ search' =
         IF search.par
         THEN [search EXCEPT
                 !.pc = "join",
                 !.islands = Tup([k \in 1..Len(search.islands) |->
                                    [search.islands[k] EXCEPT !.state = "evolving"]])]
         ELSE [search EXCEPT !.pc = "done"]
    /\ UNCHANGED <<searchRest, local_initial_npoints, local_initial_points,
                   local_extrema, local_f, searched>>

\* line 1174: archi.join() returns
ArchiJoin ==
    /\ search.pc = "join"
    /\ \A k \in 1..Len(search.islands) : search.islands[k].state = "done"
    /\ search' = [search EXCEPT !.pc = "read", !.i = 0]
    /\ UNCHANGED <<searchRest, local_initial_npoints, local_initial_points,
                   local_extrema, local_f, searched>>

\* lines 1176-1179: one pass of "for i in archi"
ArchiRead ==
    /\ search.pc = "read"
    /\ \E isl \in {ArchiIter(search.islands, search.i + 1)} :
          /\ local_extrema' = Append(local_extrema, isl.x)
          /\ local_f' = Append(local_f, isl.f)
          /\ search' = [search EXCEPT
                          !.local_search_time = Append(search.local_search_time, isl.time),
                          !.i = search.i + 1,
                          !.pc = IF search.i + 1 = Len(search.islands)
                                 THEN "done" ELSE "read"]
    /\ UNCHANGED <<searchRest, local_initial_npoints, local_initial_points, searched>>

NextSearch ==
    \/ SearchEnter
    \/ SearchPush
    \/ IslandFinish
    \/ SeqRead
    \/ SearchEvolve
    \/ ArchiJoin
    \/ ArchiRead

SpecSearch == InitSearch /\ [][NextSearch]_vars

\* ------------------------------------------------------------ the claims
\* C1: in every reachable state, whether the sample() calls before it
\* returned or raised, len(points) == len(f) == npoints.
C1_LengthsAgree == Len(points) = Len(f) /\ Len(f) = npoints

\* C2: an analysis operation called while no sample() call has completed
\* fails with 'sampling first is necessary', whatever came before; and
\* cluster_local_extrema called while get_local_extrema has not been run
\* fails with 'getting local extrema first is necessary'.
AnalysisOps ==
    {"mean", "p_lin_conv", "get_gradient", "get_hessian", "get_local_extrema",
     "cluster_local_extrema"}
C2_OrderingErrors ==
    /\ (last.op \in AnalysisOps /\ ~sampled)
         => (last.exc = "ValueError" /\ last.msg = SamplingFirst)
    /\ (last.op = "cluster_local_extrema" /\ sampled /\ ~searched)
         => (last.exc = "ValueError" /\ last.msg = LocalExtremaFirst)

\* C3: after a sample() by 'sobol', 'lhs' or 'montecarlo' every stored
\* coordinate is the image of its unit-cube coordinate u under
\* lb + u*(ub-lb), rounded when the coordinate is integer-coded: u=0 yields
\* lb and u=1 yields ub.
SampledByGenerator ==
    /\ last.op = "sample" /\ last.exc = "none"
    /\ last.args.method \in {"sobol", "lhs", "montecarlo"}
Forward(i, j) == RAdd(lb[j], RMul(unit[i][j], RSub(ub[j], lb[j])))
Reversed(i, j) == RAdd(lb[j], RMul(RSub(One, unit[i][j]), RSub(ub[j], lb[j])))
C3_ForwardMapping ==
    SampledByGenerator =>
        \A i \in 1..npoints : \A j \in 1..dim :
            points[i][j] = IF j > cont_dim THEN Round0(Forward(i, j)) ELSE Forward(i, j)

\* C3, witness: a generated sample holding a point drawn at u=0 on a
\* coordinate whose bounds differ, stored at the lower bound.
C3_DrawnAtZero ==
    /\ SampledByGenerator
    /\ \E i \in 1..npoints : \E j \in 1..dim :
          unit[i][j] = Zero /\ lb[j] # ub[j] /\ points[i][j] = lb[j]

\* C3 as stated: each unit-cube coordinate u is mapped to lb + (1-u)*(ub-lb),
\* so that u=0 yields ub and u=1 yields lb.
C3_ReversedMapping ==
    SampledByGenerator =>
        \A i \in 1..npoints : \A j \in 1..dim :
            points[i][j] = IF j > cont_dim THEN Round0(Reversed(i, j)) ELSE Reversed(i, j)

\* C4: every decision vector stored by a successful sample(), whatever the
\* method, lies within [lb, ub] componentwise and its components of index
\* >= cont_dim are integers.
C4_WithinBoundsAndIntegral ==
    (last.op \in {"sample", "__init__"} /\ last.exc = "none") =>
        \A i \in 1..Len(points) : \A j \in 1..dim :
            /\ RLe(lb[j], points[i][j]) /\ RLe(points[i][j], ub[j])
            /\ j > cont_dim => IsInteger(points[i][j])

\* C4, witness: a sample in which an integer-coded coordinate was mapped to
\* a fraction and stored rounded.
C4_RoundedCoordinate ==
    /\ SampledByGenerator
    /\ \E i \in 1..npoints : \E j \in (cont_dim + 1)..dim :
          ~IsInteger(Forward(i, j)) /\ IsInteger(points[i][j])

\* C5: sample() raises a configuration error and stores no sample when
\* npoints <= 0, when the method is none of the four, when 'pop' is asked
\* of an object without individuals, and when 'pop' is asked for more
\* points than the population holds.
MisconfiguredSample ==
    /\ last.op = "sample"
    /\ \/ last.args.npoints <= 0
       \/ last.args.method \notin {"sobol", "lhs", "montecarlo", "pop"}
       \/ last.args.method = "pop" /\ Len(pop) = 0
       \/ last.args.method = "pop" /\ last.args.npoints > Len(pop)
C5_ConfigurationErrors ==
    MisconfiguredSample => (last.exc = "ValueError" /\ points = <<>> /\ f = <<>>)

\* C5, witness: sample(0, ...) called on an object that held a sample.
C5_ZeroPointsRequested ==
    MisconfiguredSample /\ last.args.npoints = 0 /\ pop # <<>>

\* C6: for every x, h, tol and tmax the Richardson routines stop after at
\* most tmax passes, earlier only when the difference of the last two best
\* extrapolants is within tol, and return without raising.
C6_TerminatesWithoutError ==
    /\ rich.pc \in {"loop", "done"} => rich.L.t <= rich.tmax
    /\ (rich.pc = "done" /\ rich.L.t < rich.tmax) => RLe(rich.L.err, rich.tol)
    /\ rich.pc = "done" => rich.ret.exc = "none"

\* C7: the Richardson gradient of x1^2 + 3*x2 at [2,1], with tmax = 15, any
\* step h > 0 and any 0 < tol < 1, is within tol of [4, 3] and the loop has
\* made fewer than 15 passes.
C7Case ==
    /\ rich.pc = "done" /\ prob = "quad" /\ rich.order = 1
    /\ rich.x0 = <<I(2), I(1)>> /\ rich.tmax = TmaxDefault
    /\ RLt(Zero, rich.h) /\ RLt(Zero, rich.tol) /\ RLt(rich.tol, One)
C7_QuadraticGradient ==
    C7Case =>
        /\ rich.ret.exc = "none"
        /\ rich.L.t < TmaxDefault
        /\ RLe(RAbs(RSub(rich.ret.val[1][1], I(4))), rich.tol)
        /\ RLe(RAbs(RSub(rich.ret.val[1][2], I(3))), rich.tol)

\* C7, witness: such an evaluation has returned, after its second pass.
C7_Returned == C7Case /\ rich.L.t = 2

\* C8: get_gradient, get_hessian and p_lin_conv leave points, f, npoints,
\* lb and ub as they were, the vectors handed to Richardson included.
C8_SampleUntouched ==
    [][last'.op \in {"get_gradient", "get_hessian", "p_lin_conv"}
         => UNCHANGED <<points, f, npoints, lb, ub>>]_vars

\* C8, witness: get_hessian has evaluated Richardson at sample points.
C8_HessianComputed ==
    last.op = "get_hessian" /\ last.exc = "none" /\ hess # <<>> /\ cont_dim > 0

\* C9: a get_gradient that returns has used indices 0..npoints-1 in order
\* when sample_size is 0 or >= npoints and sample_size indices of
\* [0, npoints) otherwise; grad_npoints == len(grad_points) == len(grad);
\* grad_sparsity is the number of entries whose mean absolute derivative
\* over the selected points is <= zero_tol, over f_dim*cont_dim, in [0, 1].
SparseEntries ==
    {e \in (1..f_dim) \X (1..cont_dim) :
        RLe(SumSeq(Tup([k \in 1..Len(grad) |-> RAbs(grad[k][e[1]][e[2]])])),
            RMul(last.args.zero_tol, I(Len(grad))))}
GradientReturned == last.op = "get_gradient" /\ last.exc = "none"
C9_GradientSelection ==
    GradientReturned =>
        /\ IF last.args.sample_size = 0 \/ last.args.sample_size >= npoints
           THEN /\ Len(grad_points) = npoints
                /\ \A i \in 1..npoints : grad_points[i] = i - 1
           ELSE /\ Len(grad_points) = last.args.sample_size
                /\ \A i \in 1..Len(grad_points) : grad_points[i] \in 0..(npoints - 1)
        /\ grad_npoints = Len(grad_points) /\ Len(grad) = grad_npoints
        /\ RMul(grad_sparsity, I(f_dim * cont_dim)) = I(Cardinality(SparseEntries))
        /\ RLe(Zero, grad_sparsity) /\ RLe(grad_sparsity, One)

\* C9, witness: a gradient over a drawn subset of the sample in which some
\* entries, but not all, are sparse.
C9_PartlySparse ==
    /\ GradientReturned
    /\ 0 < last.args.sample_size /\ last.args.sample_size < npoints
    /\ RLt(Zero, grad_sparsity) /\ RLt(grad_sparsity, One)

\* C10: the Hessian returned holds, per objective, a cont_dim x cont_dim
\* symmetric matrix; each pass writes the 3-point stencil
\* (f(x+h)-2f(x)+f(x-h))/h^2 for a diagonal entry and the 4-point stencil
\* over 4h^2 for an off-diagonal one; no evaluation point differs from x
\* in an integer-coded coordinate.
Shift(x, a, da, b, db) ==
    [j \in 1..Len(x) |-> RAdd(x[j], RAdd(IF j = a THEN da ELSE Zero,
                                          IF j = b THEN db ELSE Zero))]
ThreePoint(x, a, h, j) ==
    RDiv(RAdd(RSub(ObjFun(prob, Shift(x, a, h, a, Zero))[j],
                   RMul(I(2), ObjFun(prob, x)[j])),
              ObjFun(prob, Shift(x, a, RNeg(h), a, Zero))[j]),
         RMul(h, h))
FourPoint(x, a, b, h, j) ==
    RDiv(RAdd(RSub(RSub(ObjFun(prob, Shift(x, a, h, b, h))[j],
                        ObjFun(prob, Shift(x, a, h, b, RNeg(h)))[j]),
                   ObjFun(prob, Shift(x, a, RNeg(h), b, h))[j]),
              ObjFun(prob, Shift(x, a, RNeg(h), b, RNeg(h)))[j]),
         RMul(I(4), RMul(h, h)))
LastWritten == rich.L.d[((rich.L.t - 1) % 2) + 1][1]
C10_HessianShape ==
    (rich.pc \in {"loop", "done"} /\ rich.order = 2) =>
        /\ (rich.pc = "done" /\ rich.ret.exc = "none") =>
              /\ Len(rich.ret.val) = f_dim
              /\ \A j \in 1..f_dim :
                    /\ Len(rich.ret.val[j]) = cont_dim
                    /\ \A a \in 1..cont_dim :
                          /\ Len(rich.ret.val[j][a]) = cont_dim
                          /\ \A b \in 1..cont_dim :
                                rich.ret.val[j][a][b] = rich.ret.val[j][b][a]
        /\ (rich.L.t > 0 /\ rich.L.exc = "none") =>
              \A j \in 1..f_dim : \A a \in 1..cont_dim : \A b \in a..cont_dim :
                  LastWritten[j][IndPos(a - 1, b - 1, cont_dim)] =
                      IF a = b THEN ThreePoint(rich.x0, a, rich.L.hh, j)
                      ELSE FourPoint(rich.x0, a, b, rich.L.hh, j)
        /\ \A e \in evals : \A j \in (cont_dim + 1)..dim : e[j] = rich.x0[j]

\* C10, witness: a Hessian has been returned for a point with an
\* integer-coded coordinate, with a non-zero off-diagonal entry.
C10_MixedPartial ==
    /\ rich.pc = "done" /\ rich.order = 2 /\ rich.ret.exc = "none"
    /\ int_dim > 0 /\ cont_dim >= 2
    /\ \E j \in 1..f_dim : rich.ret.val[j][1][2] # Zero

\* C11: p_lin_conv on a sampled object with a continuous dimension and
\* npoints >= 1 uses two distinct indices in every trial and, the draws
\* being fair, returns.
C11_DistinctAndTerminates ==
    (cont_dim > 0 /\ npoints >= 1) =>
        /\ [](plin.pc = "trial" => plin.i1 # plin.i2)
        /\ <>(plin.pc = "done")

\* C12: when p_lin_conv returns, for each objective j p_lin[j] is the share
\* of trials with |delta_j| < threshold, p_conv[j] the share of the other
\* trials with delta_j > 0 and mean_dev[j] the mean of |delta_j|, over
\* n_pairs trials, n_pairs being npoints when given as 0.
C12_TrialAccounting ==
    plin.pc = "done" =>
        /\ plin.n_pairs = IF plin.arg = 0 THEN npoints ELSE plin.arg
        /\ Len(plin.hist) = plin.n_pairs
        /\ lin_conv_npairs = <<plin.n_pairs>>
        /\ \A j \in 1..f_dim :
              /\ RMul(plin.ret[1][j], I(plin.n_pairs)) =
                    I(Cardinality({k \in 1..Len(plin.hist) :
                         RLt(RAbs(plin.hist[k][j]), plin.threshold)}))
              /\ RMul(plin.ret[2][j], I(plin.n_pairs)) =
                    I(Cardinality({k \in 1..Len(plin.hist) :
                         /\ ~RLt(RAbs(plin.hist[k][j]), plin.threshold)
                         /\ RLt(Zero, plin.hist[k][j])}))
              /\ RMul(plin.ret[3][j], I(plin.n_pairs)) =
                    SumSeq(Tup([k \in 1..Len(plin.hist) |-> RAbs(plin.hist[k][j])]))

\* C12, witness: a call has returned with one objective counted convex in
\* some trial and another counted linear.
C12_LinearAndConvexCounted ==
    /\ plin.pc = "done"
    /\ \E j \in 1..f_dim : plin.ret[2][j] # Zero
    /\ \E j \in 1..f_dim : plin.ret[1][j] # Zero

C14_NoSignAgreeingPair ==
    pca.pc = "done" =>
        /\ \A a \in 1..Len(pca.ret), b \in 1..Len(pca.ret) :
              a # b => ~SignsAgree(pca.M, pca.ret[a], pca.ret[b])
        /\ \A b \in 1..Len(pca.kept) :
              ~Contains(pca.ret, pca.kept[b]) =>
                  \E a \in 1..(b - 1) : SignsAgree(pca.M, pca.kept[a], pca.kept[b])

\* C15: given the correlation matrix [[1,1],[1,1]] and any of its
\* eigen-decompositions, perform_f_pca returns exactly one objective.
C15_PerfectlyCorrelatedPair ==
    (pca.pc = "done" /\ pca.M = <<(<<One, One>>), (<<One, One>>)>>) => Len(pca.ret) = 1

\* C16: perform_f_pca visits the eigen-pairs in descending order of
\* |lambda_i| / sum|lambda|, keeps the running total of the contributions
\* visited, goes on to the next pair only while the total is below tc and
\* some objective is not kept, stops as soon as one of the two fails, and
\* afterwards visits nothing more: the kept objectives are named by the
\* visited eigenvectors alone and the second pass only removes.
Share(i) ==
    RDiv(RAbs(pca.eigenvals[i + 1]),
         SumSeq(Tup([k \in 1..Len(pca.eigenvals) |-> RAbs(pca.eigenvals[k])])))
VisitedBy(k) == {pca.visited[m].i : m \in 1..k}
C16_Ranked ==
    pca.pc \in {"visit", "correlate", "pair", "return", "done"} =>
        LET l == Len(pca.eigenvals)
            nv == Len(pca.visited)
        IN  /\ Cardinality(VisitedBy(nv)) = nv
            /\ \A k \in 1..nv, j \in 0..(l - 1) :
                  j \notin VisitedBy(k) => RLe(Share(j), Share(pca.visited[k].i))
            /\ \A k \in 1..nv :
                  \/ pca.visited[k].brk /\ k = nv /\ pca.visited[k].nkeep = l
                  \/ pca.visited[k].total =
                        SumSeq(Tup([m \in 1..k |-> Share(pca.visited[m].i)]))
            /\ \A k \in 1..nv :
                  (k < nv \/ pca.pc = "visit") =>
                      RLt(pca.visited[k].total, pca.tc) /\ pca.visited[k].nkeep < l
            /\ pca.pc # "visit" =>
                  /\ nv >= 1
                  /\ \/ RLe(pca.tc, pca.visited[nv].total)
                     \/ pca.visited[nv].nkeep = l
                     \/ nv = l
                  /\ \A k \in 1..Len(pca.keep) :
                        \/ pca.visited[nv].brk
                        \/ \E m \in 1..nv :
                              pca.keep[k] \in
                                 {ArgMax(pca.eigenvects[pca.visited[m].i + 1]),
                                  ArgMin(pca.eigenvects[pca.visited[m].i + 1])}
C16_VisitsNothingMore ==
    pca.pc \in {"correlate", "pair", "return", "done"} =>
        /\ pca'.visited = pca.visited
        /\ \A k \in 1..Len(pca'.keep) : Contains(pca.keep, pca'.keep[k])
C16_RankedGreedyStop == []C16_Ranked /\ [][C16_VisitsNothingMore]_vars

\* C16, witness: a call has returned after stopping on the running total
\* at the second of three eigen-pairs, with an objective not kept.
C16_StoppedOnTotal ==
    /\ pca.pc = "done" /\ Len(pca.eigenvals) = 3 /\ Len(pca.visited) = 2
    /\ RLe(pca.tc, pca.visited[2].total)
    /\ pca.visited[2].nkeep < 3

\* C17: perform_f_pca always returns, and what it returns is a non-empty
\* list of objective indices in [0, f_dim) in strictly ascending order.
C17_NonEmptyAscending ==
    /\ pca.exc # "TypeError"
    /\ pca.pc = "done" =>
          /\ Len(pca.ret) >= 1
          /\ \A a \in 1..Len(pca.ret) : pca.ret[a] \in 0..(f_dim - 1)
          /\ \A a \in 1..Len(pca.ret), b \in 1..Len(pca.ret) :
                a < b => pca.ret[a] < pca.ret[b]

\* C18: after cluster_local_extrema completes, on the fixed-k, the
\* single-cluster or the adaptive path, local_cluster_f_centers is
\* non-decreasing in the cluster label and every result's stored label
\* names the group KMeans had put it in: the same results share a label,
\* and the label's stored size and centroid value are that group's.
C18_OrderedRelabeling ==
    clus.pc = "done" =>
        LET st == clus.stored
            y == clus.fit.y
        IN  /\ Len(st.local_cluster_f_centers) = local_nclusters
            /\ Len(st.local_cluster) = local_initial_npoints
            /\ \A a \in 1..local_nclusters, b \in 1..local_nclusters :
                  a < b => RLe(st.local_cluster_f_centers[a],
                               st.local_cluster_f_centers[b])
            /\ \A i \in 1..local_initial_npoints :
                  /\ st.local_cluster[i] \in 0..(local_nclusters - 1)
                  /\ st.local_cluster_f_centers[st.local_cluster[i] + 1] =
                        RAdd(RMul(clus.fit.centers[y[i] + 1][dim + 1], clus.range_f),
                             clus.mean_f)
                  /\ st.local_cluster_size[st.local_cluster[i] + 1] =
                        Cardinality(Members(y, y[i]))
                  /\ \A j \in 1..local_initial_npoints :
                        (y[i] = y[j]) <=> (st.local_cluster[i] = st.local_cluster[j])

\* C18, witness: a call has completed with three clusters and some result
\* stored under another label than the one KMeans gave it.
C18_LabelsPermuted ==
    /\ clus.pc = "done" /\ local_nclusters = 3
    /\ \E i \in 1..local_initial_npoints : clus.stored.local_cluster[i] # clus.fit.y[i]

\* C19: in adaptive mode, past the single-cluster test, local_nclusters is
\* the first k >= 2 whose explained-variance ratio is at least
\* variance_ratio, equality included.
C19_FirstKReachingTarget ==
    (clus.pc = "done" /\ clus.k_arg = 0 /\ clus.passes # <<>>) =>
        \A m \in 1..Len(clus.passes) :
            (/\ RLe(clus.variance_ratio, clus.passes[m].var_ratio)
             /\ \A h \in 1..(m - 1) :
                   ~RLe(clus.variance_ratio, clus.passes[h].var_ratio))
            => local_nclusters = clus.passes[m].k

\* C20: in adaptive mode, whatever kmax >= 1 and variance_ratio, a call
\* that has passed the guards ends with an assignment stored for every
\* result and 1 <= local_nclusters <= kmax, kmax being the number of
\* results when given as 0.
C20_AdaptiveWithinKmax ==
    (clus.k_arg = 0 /\ clus.pc \in {"raised", "done"}) =>
        /\ clus.pc = "raised" =>
              clus.msg \in {SamplingFirst, LocalExtremaFirst,
                            "the results appear to be constant"}
        /\ clus.pc = "done" =>
              /\ Len(clus.stored.local_cluster) = local_initial_npoints
              /\ 1 <= local_nclusters
              /\ local_nclusters <= (IF clus.kmax_arg = 0 THEN local_initial_npoints
                                     ELSE clus.kmax_arg)

\* C21: after cluster_local_extrema completes, local_cluster has one entry
\* per local-search result, each in [0, local_nclusters);
\* local_cluster_size[c] is the number of results labelled c, the sizes sum
\* to local_initial_npoints, and a cluster of one result has radius 0 and
\* objective-value range 0.
C21_ConsistentClusterTable ==
    clus.pc = "done" =>
        LET st == clus.stored
            Labelled(c) == {i \in 1..Len(st.local_cluster) : st.local_cluster[i] = c}
        IN  /\ Len(st.local_cluster) = local_initial_npoints
            /\ Len(st.local_cluster) = Len(local_extrema)
            /\ \A i \in 1..Len(st.local_cluster) :
                  st.local_cluster[i] \in 0..(local_nclusters - 1)
            /\ Len(st.local_cluster_size) = local_nclusters
            /\ Len(st.local_cluster_rx2) = local_nclusters
            /\ Len(st.local_cluster_df) = local_nclusters
            /\ \A c \in 0..(local_nclusters - 1) :
                  /\ st.local_cluster_size[c + 1] = Cardinality(Labelled(c))
                  /\ Cardinality(Labelled(c)) = 1 =>
                        /\ st.local_cluster_rx2[c + 1] = Zero
                        /\ st.local_cluster_df[c + 1] = Zero
            /\ SumSeq(Tup([c \in 1..local_nclusters |-> I(st.local_cluster_size[c])]))
                  = I(local_initial_npoints)

\* C21, witness: a call has completed with a cluster of one result and a
\* cluster of two results whose radius is not 0.
C21_SingletonAndPair ==
    /\ clus.pc = "done"
    /\ \E a \in 1..local_nclusters, b \in 1..local_nclusters :
          /\ clus.stored.local_cluster_size[a] = 1
          /\ clus.stored.local_cluster_size[b] = 2
          /\ clus.stored.local_cluster_rx2[b] # Zero
          /\ clus.stored.local_cluster_df[b] # Zero

\* C22: when the mean peak-to-peak range of the objectives is below
\* single_cluster_tolerance, cluster_local_extrema fits no KMeans, stores
\* nothing and raises "the results appear to be constant", with an error
\* kind other than the ValueError of the precondition errors (lines
\* 1212-1217).
C22_ConstantReportedDistinctly ==
    (/\ clus.pc \in {"raised", "done"}
     /\ npoints # 0 /\ local_initial_npoints # 0
     /\ RLt(RangeF(f, f_dim), clus.single_cluster_tolerance)) =>
        /\ clus.pc = "raised"
        /\ clus.msg = "the results appear to be constant"
        /\ ~clus.ybound /\ clus.stored = <<>> /\ local_nclusters = 0
        /\ clus.exc # "ValueError"

\* C23: sample(npoints,'pop') with npoints the size of the population
\* stores all the individuals in the order of the population; with fewer
\* it stores npoints individuals from pairwise distinct positions of the
\* population, each with the fitness vector the population holds for it.
C23_WithoutReplacement ==
    (last.op = "sample" /\ last.exc = "none" /\ last.args.method = "pop") =>
        LET n == last.args.npoints
        IN  /\ npoints = n /\ Len(points) = n /\ Len(f) = n
            /\ n = Len(pop) =>
                  \A i \in 1..n : points[i] = pop[i].cur_x /\ f[i] = pop[i].cur_f
            /\ n < Len(pop) =>
                  \E pos \in [1..n -> 1..Len(pop)] :
                      /\ \A a \in 1..n, b \in 1..n : a # b => pos[a] # pos[b]
                      /\ \A i \in 1..n : /\ points[i] = pop[pos[i]].cur_x
                                         /\ f[i] = pop[pos[i]].cur_f

\* C23, witness: a partial sample of three of the four individuals has
\* been stored, the last individual of the population first.
C23_ThreeOfFourDrawn ==
    /\ last.op = "sample" /\ last.exc = "none" /\ last.args.method = "pop"
    /\ Len(pop) = 4 /\ npoints = 3
    /\ points[1] = pop[4].cur_x /\ points[2] = pop[1].cur_x

\* C24: a sample() call with method 'sobol' (or 'lhs') stores points and
\* objective vectors that are determined by the problem, npoints and first
\* alone: whatever was called on the object before, the points are those of
\* the sequence entered at first (of the latin hypercube of npoints
\* strata), and a call repeated with the same arguments stores the same
\* points and the same objective vectors again.
C24_Determined ==
    (last.op = "sample" /\ last.exc = "none" /\ last.args.method \in {"sobol", "lhs"}) =>
        LET n == last.args.npoints
            u(i, j) == IF last.args.method = "sobol"
                       THEN SobolTable[((last.args.first + i - 1) % 8) + 1][((j - 1) % 2) + 1]
                       ELSE IF j % 2 = 1 THEN Q(2 * i - 1, 2 * n)
                       ELSE Q(2 * (n - i) + 1, 2 * n)
            x(i) == Tup([j \in 1..Dimension(prob) |->
                           LET v == RAdd(RMul(u(i, j), ProbUb(prob)[j]),
                                         RMul(RSub(One, u(i, j)), ProbLb(prob)[j]))
                           IN  IF j - 1 >= Dimension(prob) - IDimension(prob)
                               THEN Round0(v) ELSE v])
        IN  /\ npoints = n /\ Len(points) = n /\ Len(f) = n
            /\ \A i \in 1..n : points[i] = x(i) /\ f[i] = ObjFun(prob, x(i))
C24_RepeatedCall ==
    (/\ last.op = "sample" /\ last.exc = "none"
     /\ last'.op = "sample" /\ last'.exc = "none"
     /\ last.args.method \in {"sobol", "lhs"} /\ last'.args = last.args) =>
        (points' = points /\ f' = f)
RECURSIVE D(_, _)
D(t, k) ==
    IF k = 0
    THEN FDTensor(prob, rich.x0, RDiv(rich.h, I(Pow(2, t))), 1)
    ELSE CHOOSE r \in {TAdd(a, TDivInt(TSub(a, b), Pow(4, k) - 1)) :
                       a \in {D(t, k - 1)}, b \in {D(t - 1, k - 1)}} : TRUE
C25_TriangularTable ==
    (rich.pc \in {"loop", "done"} /\ rich.order = 1 /\ rich.L.exc # "ValueError") =>
        LET T == rich.L.t
            row(t) == rich.L.d[(t % 2) + 1]
        IN  /\ rich.L.exc = "none"
            /\ T >= 1 => /\ Len(row(T - 1)) >= T
                         /\ \A k \in 0..(T - 1) : row(T - 1)[k + 1] = D(T - 1, k)
            /\ T >= 2 => /\ Len(row(T - 2)) >= T - 1
                         /\ \A k \in 0..(T - 2) : row(T - 2)[k + 1] = D(T - 2, k)
            /\ (rich.pc = "done" /\ T >= 1) =>
                  rich.ret.exc = "none" /\ rich.ret.val = D(T - 1, T - 1)

\* C25, witness: an evaluation has returned after three passes, the first
\* buffer written twice, with a last extrapolant that differs from the
\* central difference of the last pass.
C25_BufferReused ==
    /\ rich.pc = "done" /\ rich.order = 1 /\ rich.L.t = 3
    /\ rich.ret.exc = "none" /\ rich.ret.val # rich.L.d[1][1]

\* C26: for the first eigenvector visited, with max loading p at index_p
\* and min loading n at index_n: if p is negative all objectives are kept
\* and the pass over the eigen-pairs stops; otherwise (p >= 0) the kept
\* list is index_p, followed by index_n iff n < 0.
C26_FirstVisited ==
    /\ pca.pc \in {"visit", "correlate"}
    /\ Len(pca.visited) = 1
C26_FirstEigenvector ==
    C26_FirstVisited =>
        LET vect == pca.eigenvects[pca.visited[1].i + 1]
            index_p == ArgMax(vect)
            index_n == ArgMin(vect)
            p == vect[index_p + 1]
            n == vect[index_n + 1]
        IN  IF RLt(p, Zero)
            THEN pca.keep = Range0(Len(vect)) /\ pca.visited[1].brk
            ELSE pca.keep = IF RLt(n, Zero) THEN <<index_p, index_n>> ELSE <<index_p>>

\* C27: for each eigen-pair visited after the first, with max loading p at
\* index_p and min loading n at index_n: if |eigenvalue| < tabs only the
\* extreme of larger magnitude is added; else if n >= 0 only index_p; else
\* if p <= 0 all objectives are kept and the pass stops; else (n < 0 < p)
\* both extremes are added iff 0.9*|n| <= p <= |n| or (p > |n| and
\* |n| >= 0.8*p), only index_n iff p < 0.9*|n| and only index_p iff
\* |n| < 0.8*p.  Adding an index already kept changes nothing: the kept
\* list never holds an index twice.
C27_LaterVisit ==
    /\ pca.pc = "visit" /\ ~pca.first
    /\ Len(pca'.visited) = Len(pca.visited) + 1
C27_Rule ==
    C27_LaterVisit =>
        LET i == pca'.visited[Len(pca'.visited)].i
            vect == pca.eigenvects[i + 1]
            index_p == ArgMax(vect)
            index_n == ArgMin(vect)
            p == vect[index_p + 1]
            n == vect[index_n + 1]
            an == RAbs(n)
            Kept(k) == {k[h] : h \in 1..Len(k)}
            Adds(S) ==
                /\ ~pca'.visited[Len(pca'.visited)].brk
                /\ Kept(pca'.keep) = Kept(pca.keep) \cup S
                /\ SubSeq(pca'.keep, 1, Len(pca.keep)) = pca.keep
                /\ Cardinality(Kept(pca'.keep)) = Len(pca'.keep)
            All == /\ pca'.keep = Range0(Len(vect))
                   /\ pca'.visited[Len(pca'.visited)].brk
                   /\ pca'.pc = "correlate"
        IN  IF RLt(RAbs(pca.eigenvals[i + 1]), pca.tabs)
            THEN IF RLt(an, RAbs(p)) THEN Adds({index_p})
                 ELSE IF RLt(RAbs(p), an) THEN Adds({index_n})
                 ELSE Adds({index_p}) \/ Adds({index_n})
            ELSE IF RLe(Zero, n) THEN Adds({index_p})
            ELSE IF RLe(p, Zero) THEN All
            ELSE LET both == \/ RLe(RMul(Q(9, 10), an), p) /\ RLe(p, an)
                             \/ RLt(an, p) /\ RLe(RMul(Q(8, 10), p), an)
                     only_n == RLt(p, RMul(Q(9, 10), an))
                     only_p == RLt(an, RMul(Q(8, 10), p))
                 IN  /\ both => (~only_n /\ ~only_p /\ Adds({index_p, index_n}))
                     /\ only_n => (~only_p /\ Adds({index_n}))
                     /\ only_p => Adds({index_p})
                     /\ both \/ only_n \/ only_p
C27_LaterEigenPairs == [][C27_Rule]_vars

\* C27, witness: an eigen-pair after the first, its eigenvalue not below
\* tabs and its loadings n < 0 < |n| < p with |n| >= 0.8*p, has been
\* visited: both its extremes are kept, index_p from an earlier visit and
\* index_n added by this one.
C27_BothExtremesAdded ==
    /\ Len(pca.visited) >= 2 /\ pca.pc \in {"visit", "correlate"}
    /\ LET m == Len(pca.visited)
           i == pca.visited[m].i
           vect == pca.eigenvects[i + 1]
           p == vect[ArgMax(vect) + 1]
           n == vect[ArgMin(vect) + 1]
       IN  /\ ~RLt(RAbs(pca.eigenvals[i + 1]), pca.tabs)
           /\ RLt(n, Zero) /\ RLt(RAbs(n), p) /\ RLt(RMul(Q(8, 10), p), RAbs(n))
           /\ pca.visited[m].nkeep = pca.visited[m - 1].nkeep + 1
           /\ pca.keep[Len(pca.keep)] = ArgMin(vect)
           /\ \E h \in 1..(Len(pca.keep) - 1) : pca.keep[h] = ArgMax(vect)

\* C28: after any sequence of sample, get_gradient, get_hessian,
\* get_local_extrema and cluster_local_extrema calls, npoints is the length
\* of points and every index stored in grad_points, hess_points and
\* local_initial_points is an index into the current sample,
\* 0 <= index < npoints.
C28_IndicesIntoCurrentSample ==
    /\ npoints = Len(points)
    /\ \A s \in {grad_points, hess_points, local_initial_points} :
          \A k \in 1..Len(s) : 0 <= s[k] /\ s[k] < npoints

C30_SharesWithinUnit ==
    (plin.pc = "done" /\ plin.n_pairs > 0) =>
        \A j \in 1..f_dim :
            /\ RLe(Zero, plin.ret[1][j]) /\ RLe(Zero, plin.ret[2][j])
            /\ RLe(RAdd(plin.ret[1][j], plin.ret[2][j]), One)
            /\ RLe(Zero, plin.ret[3][j])
            /\ plin.p_lin[j] + plin.p_conv[j] <= Len(plin.hist)

\* C30, witness: a call has returned with, for one objective, one trial
\* counted linear with a positive deviation and the other counted convex.
C30_OneLinearOneConvex ==
    /\ plin.pc = "done" /\ plin.n_pairs = 2
    /\ \E j \in 1..f_dim :
          /\ plin.ret[1][j] = Half /\ plin.ret[2][j] = Half
          /\ \A k \in 1..2 : RLt(Zero, plin.hist[k][j])

====
